---- MODULE Spec2Model ----
(***************************************************************************)
(* Model of SnowflakeCortexAgentClient (snowflake_cortex_agent_client.py): *)
(* the agent-run request, the SSE frame decoder (_iter_sse), the event     *)
(* normalizer (_parse_sse_block), the content extractor (_extract_content) *)
(* and the two run variants (run_agent_stream, run_agent).                 *)
(*                                                                         *)
(* A Python string is a sequence of atoms (TLA+ strings): "Hi there" is    *)
(* <<"Hi", " ", "there">>.  A JSON / Python value is a record              *)
(*   [t |-> tag, s |-> atoms, l |-> children]                              *)
(* with tag "none", "str", "num", "list" or "obj"; the children of an      *)
(* object are its members [k |-> key atoms, v |-> value] in insertion      *)
(* order, as in a Python dict.                                             *)
(***************************************************************************)
EXTENDS Integers, Sequences, FiniteSets, TLC

\* ------------------------------------------------------------------ bounds

\* Longest line stream the environment delivers (besides the named streams).
MaxLines == 3
\* Longest line stream of a run of the reused client (SpecRuns).
MaxRunLines == 2
\* Number of runs issued on one client instance (SpecRuns).
MaxRuns == 2
\* Most events _iter_sse yields in a run over normalized events (SpecEvents).
MaxEvents == 2

\* ------------------------------------------------------------------ values

None == [t |-> "none", s |-> <<>>, l |-> <<>>]
Str(atoms) == [t |-> "str", s |-> atoms, l |-> <<>>]
Num(atom) == [t |-> "num", s |-> <<atom>>, l |-> <<>>]
List(items) == [t |-> "list", s |-> <<>>, l |-> items]
Obj(members) == [t |-> "obj", s |-> <<>>, l |-> members]
Member(key, val) == [k |-> key, v |-> val]

IsDict(x) == x.t = "obj"
IsList(x) == x.t = "list"
IsStr(x) == x.t = "str"

\* key in d
Has(d, key) == \E i \in 1..Len(d.l) : d.l[i].k = key

\* d.get(key): the value under key, None when the key is missing
Get(d, key) ==
  IF Has(d, key)
  THEN d.l[CHOOSE i \in 1..Len(d.l) : d.l[i].k = key].v
  ELSE None

\* d[key] = val: replaces the value of an existing key in place, appends otherwise
Put(d, key, val) ==
  IF Has(d, key)
  THEN Obj([i \in 1..Len(d.l) |-> IF d.l[i].k = key THEN Member(key, val) ELSE d.l[i]])
  ELSE Obj(Append(d.l, Member(key, val)))

\* Python truthiness of None, a str, a list or a dict: None and the empty ones are falsy
Truthy(x) == ~(x = None \/ (x.t \in {"obj", "list", "str"} /\ x.l = <<>> /\ x.s = <<>>))

K(name) == <<name>>

\* ------------------------------------------------------------- str methods

Whitespace == {" ", "\n", "\t"}

RECURSIVE LStrip(_)
LStrip(s) == IF s # <<>> /\ Head(s) \in Whitespace THEN LStrip(Tail(s)) ELSE s

RECURSIVE RStrip(_)
RStrip(s) ==
  IF s # <<>> /\ s[Len(s)] \in Whitespace THEN RStrip(SubSeq(s, 1, Len(s) - 1)) ELSE s

Strip(s) == RStrip(LStrip(s))

StartsWith(s, prefix) == Len(s) >= 1 /\ s[1] = prefix

\* "\n".join(strs)
RECURSIVE JoinNl(_)
JoinNl(strs) ==
  IF strs = <<>> THEN <<>>
  ELSE IF Len(strs) = 1 THEN strs[1]
  ELSE strs[1] \o <<"\n">> \o JoinNl(Tail(strs))

\* "".join(strs)
RECURSIVE Join(_)
Join(strs) == IF strs = <<>> THEN <<>> ELSE Head(strs) \o Join(Tail(strs))

\* -------------------------------------------------------------- json.loads

Digits == {"0", "1", "5"}
Quote == "\""

RECURSIVE SkipWs(_, _)
SkipWs(s, i) == IF i <= Len(s) /\ s[i] \in Whitespace THEN SkipWs(s, i + 1) ELSE i

\* position of the quote closing the string literal opened before i; 0 if none
RECURSIVE CloseQuote(_, _)
CloseQuote(s, i) ==
  IF i > Len(s) THEN 0 ELSE IF s[i] = Quote THEN i ELSE CloseQuote(s, i + 1)

Fail == [ok |-> FALSE, v |-> None, next |-> 0]
Parsed(val, next) == [ok |-> TRUE, v |-> val, next |-> next]

RECURSIVE ParseValue(_, _)
RECURSIVE ParseMembers(_, _, _)
RECURSIVE ParseItems(_, _, _)

\* the JSON value starting at (or after whitespace at) position i0 of s
ParseValue(s, i0) ==
  LET i == SkipWs(s, i0) IN
  IF i > Len(s) THEN Fail
  ELSE IF s[i] = Quote THEN
    LET j == CloseQuote(s, i + 1) IN
    IF j = 0 THEN Fail ELSE Parsed(Str(SubSeq(s, i + 1, j - 1)), j + 1)
  ELSE IF s[i] \in Digits THEN Parsed(Num(s[i]), i + 1)
  ELSE IF s[i] = "{" THEN
    LET j == SkipWs(s, i + 1) IN
    IF j <= Len(s) /\ s[j] = "}" THEN Parsed(Obj(<<>>), j + 1)
    ELSE ParseMembers(s, i + 1, Obj(<<>>))
  ELSE IF s[i] = "[" THEN
    LET j == SkipWs(s, i + 1) IN
    IF j <= Len(s) /\ s[j] = "]" THEN Parsed(List(<<>>), j + 1)
    ELSE ParseItems(s, i + 1, <<>>)
  ELSE Fail

\* members  "key" : value (, "key" : value)* }  of an object, from position i0
ParseMembers(s, i0, acc) ==
  LET i == SkipWs(s, i0) IN
  IF i > Len(s) \/ s[i] # Quote THEN Fail
  ELSE
    LET j == CloseQuote(s, i + 1) IN
    IF j = 0 THEN Fail
    ELSE
      LET key == SubSeq(s, i + 1, j - 1)
          c == SkipWs(s, j + 1)
      IN
      IF c > Len(s) \/ s[c] # ":" THEN Fail
      ELSE
        LET r == ParseValue(s, c + 1) IN
        IF ~r.ok THEN Fail
        ELSE
          LET n == SkipWs(s, r.next)
              acc2 == Put(acc, key, r.v)
          IN
          IF n > Len(s) THEN Fail
          ELSE IF s[n] = "}" THEN Parsed(acc2, n + 1)
          ELSE IF s[n] = "," THEN ParseMembers(s, n + 1, acc2)
          ELSE Fail

\* items  value (, value)* ]  of a list, from position i0
ParseItems(s, i0, acc) ==
  LET r == ParseValue(s, i0) IN
  IF ~r.ok THEN Fail
  ELSE
    LET n == SkipWs(s, r.next)
        acc2 == Append(acc, r.v)
    IN
    IF n > Len(s) THEN Fail
    ELSE IF s[n] = "]" THEN Parsed(List(acc2), n + 1)
    ELSE IF s[n] = "," THEN ParseItems(s, n + 1, acc2)
    ELSE Fail

\* json.loads(s): [ok |-> FALSE] stands for json.JSONDecodeError
JsonLoads(s) ==
  LET r == ParseValue(s, 1) IN
  IF r.ok /\ SkipWs(s, r.next) = Len(s) + 1 THEN [ok |-> TRUE, v |-> r.v] ELSE [ok |-> FALSE, v |-> None]

\* ------------------------------------------------------- _parse_sse_block

\* event_type after the loop over the block's lines: the last event: line wins
RECURSIVE EventType(_)
EventType(lines) ==
  IF lines = <<>> THEN None
  ELSE
    LET line == lines[Len(lines)] IN
    IF StartsWith(line, "event:") THEN Str(Strip(Tail(line)))
    ELSE EventType(SubSeq(lines, 1, Len(lines) - 1))

\* data_lines after the loop over the block's lines
RECURSIVE DataLines(_)
DataLines(lines) ==
  IF lines = <<>> THEN <<>>
  ELSE
    LET line == Head(lines) IN
    IF StartsWith(line, "event:") THEN DataLines(Tail(lines))
    ELSE IF StartsWith(line, "data:") THEN <<LStrip(Tail(line))>> \o DataLines(Tail(lines))
    ELSE DataLines(Tail(lines))

DataStr(lines) == Strip(JoinNl(DataLines(lines)))

\* mutant: the event key is set whether or not the frame has a name
WrappedAlwaysNamed(value, event_type) ==
  Put(Obj(<<Member(K("data"), value)>>), K("event"), event_type)

\* result = {"data": value}; if event_type: result["event"] = event_type
Wrapped(value, event_type) ==
  LET result == Obj(<<Member(K("data"), value)>>) IN
  IF Truthy(event_type) THEN Put(result, K("event"), event_type) ELSE result

\* mutant: the frame's name overwrites the object's own event key
WithEventOverwrite(parsed, event_type) ==
  IF Truthy(event_type) THEN Put(parsed, K("event"), event_type) ELSE parsed

\* if event_type and "event" not in parsed: parsed["event"] = event_type
WithEvent(parsed, event_type) ==
  IF Truthy(event_type) /\ ~Has(parsed, K("event"))
  THEN Put(parsed, K("event"), event_type)
  ELSE parsed

\* mutant: no early return for empty data
ParseSseBlockNoEmptyCheck(lines) ==
  LET event_type == EventType(lines)
      data_str == DataStr(lines)
      r == JsonLoads(data_str)
  IN
  IF ~r.ok THEN Wrapped(Str(data_str), event_type)
  ELSE IF IsDict(r.v) THEN WithEvent(r.v, event_type)
  ELSE Wrapped(r.v, event_type)

\* mutant: a block whose data is not JSON is dropped
ParseSseBlockDropMalformed(lines) ==
  LET event_type == EventType(lines)
      data_str == DataStr(lines)
      r == JsonLoads(data_str)
  IN
  IF data_str = <<>> THEN None
  ELSE IF ~r.ok THEN None
  ELSE IF IsDict(r.v) THEN WithEvent(r.v, event_type)
  ELSE Wrapped(r.v, event_type)

ParseSseBlock(lines) ==
  LET event_type == EventType(lines)
      data_str == DataStr(lines)
      r == JsonLoads(data_str)
  IN
  IF data_str = <<>> THEN None
  ELSE IF ~r.ok THEN Wrapped(Str(data_str), event_type)
  ELSE IF IsDict(r.v) THEN WithEvent(r.v, event_type)
  ELSE Wrapped(r.v, event_type)

\* ------------------------------------------------------- _extract_content

TextStr == Str(<<"text">>)

\* mutant: only blocks of type text count in the `response` rule
RECURSIVE ResponsePartsTypedOnly(_)
ResponsePartsTypedOnly(blocks) ==
  IF blocks = <<>> THEN <<>>
  ELSE
    LET block == Head(blocks)
        rest == ResponsePartsTypedOnly(Tail(blocks))
    IN
    IF IsDict(block) /\ Get(block, K("type")) = TextStr /\ IsStr(Get(block, K("text")))
    THEN <<Get(block, K("text")).s>> \o rest
    ELSE rest

\* parts of the `response` rule: the text of every dict block with a str text
RECURSIVE ResponseParts(_)
ResponseParts(blocks) ==
  IF blocks = <<>> THEN <<>>
  ELSE
    LET block == Head(blocks)
        rest == ResponseParts(Tail(blocks))
    IN
    IF IsDict(block)
    THEN IF Get(block, K("type")) = TextStr /\ IsStr(Get(block, K("text")))
         THEN <<Get(block, K("text")).s>> \o rest
         ELSE IF Has(block, K("text")) /\ IsStr(Get(block, K("text")))
         THEN <<Get(block, K("text")).s>> \o rest
         ELSE rest
    ELSE rest

\* parts2 / the inner loop of parts3: the text of every dict block of type text
RECURSIVE TextParts(_)
TextParts(blocks) ==
  IF blocks = <<>> THEN <<>>
  ELSE
    LET b == Head(blocks)
        rest == TextParts(Tail(blocks))
    IN
    IF IsDict(b) /\ Get(b, K("type")) = TextStr /\ IsStr(Get(b, K("text")))
    THEN <<Get(b, K("text")).s>> \o rest
    ELSE rest

\* parts3: the text blocks of the content list of every dict message
RECURSIVE MessageParts(_)
MessageParts(messages) ==
  IF messages = <<>> THEN <<>>
  ELSE
    LET m == Head(messages)
        rest == MessageParts(Tail(messages))
    IN
    IF IsDict(m) /\ IsList(Get(m, K("content")))
    THEN TextParts(Get(m, K("content")).l) \o rest
    ELSE rest

\* the output.messages walk; a non-dict output raises inside the try: ""
OutputContent(event) ==
  LET output == IF Has(event, K("output")) THEN Get(event, K("output")) ELSE Obj(<<>>) IN
  IF ~IsDict(output) THEN <<>>
  ELSE
    LET messages == Get(output, K("messages")) IN
    IF IsList(messages) /\ MessageParts(messages.l) # <<>>
    THEN Join(MessageParts(messages.l))
    ELSE <<>>

\* the top-level content rule and what follows it
GenericContent(event) ==
  LET content == Get(event, K("content")) IN
  IF Has(event, K("content")) /\ IsStr(content) THEN content.s
  ELSE IF Has(event, K("content")) /\ IsList(content) /\ TextParts(content.l) # <<>>
  THEN Join(TextParts(content.l))
  ELSE OutputContent(event)

\* the `response` rule and what follows it
ResponseContent(event) ==
  LET content_list == Get(event, K("content")) IN
  IF Get(event, K("event")) = Str(<<"response">>)
     /\ IsList(content_list) /\ ResponseParts(content_list.l) # <<>>
  THEN Join(ResponseParts(content_list.l))
  ELSE GenericContent(event)

\* mutant: the generic content rule comes before the text rule
ExtractContentGenericFirst(event) ==
  IF ~IsDict(event) THEN <<>>
  ELSE IF IsStr(Get(event, K("content"))) THEN Get(event, K("content")).s
  ELSE IF Get(event, K("event")) \in {Str(<<"response.text.delta">>), Str(<<"response.text">>)}
          /\ IsStr(Get(event, K("text")))
  THEN Get(event, K("text")).s
  ELSE ResponseContent(event)

ExtractContent(event) ==
  IF ~IsDict(event) THEN <<>>
  ELSE
    LET event_name == Get(event, K("event")) IN
    IF event_name \in {Str(<<"response.text.delta">>), Str(<<"response.text">>)}
       /\ IsStr(Get(event, K("text")))
    THEN Get(event, K("text")).s
    ELSE ResponseContent(event)

\* ------------------------------------------------------------ _iter_sse

\* mutant: the accumulator is not reset after a blank line
IterSseLineNoReset(buffer_lines, line) ==
  IF line = <<>>
  THEN [buffer_lines |-> buffer_lines,
        block |-> <<buffer_lines>>,
        yielded |-> <<ParseSseBlock(buffer_lines)>>]
  ELSE [buffer_lines |-> Append(buffer_lines, line), block |-> <<>>, yielded |-> <<>>]

\* one turn of the loop over resp.iter_lines: the new accumulator, the block
\* handed to _parse_sse_block (if any) and the event yielded (if any)
IterSseLine(buffer_lines, line) ==
  IF line = <<>>
  THEN [buffer_lines |-> <<>>,
        block |-> <<buffer_lines>>,
        yielded |-> <<ParseSseBlock(buffer_lines)>>]
  ELSE [buffer_lines |-> Append(buffer_lines, line), block |-> <<>>, yielded |-> <<>>]

\* mutant: the accumulator is dropped at the end of the stream
IterSseEndNoFlush(buffer_lines) ==
  [buffer_lines |-> buffer_lines, block |-> <<>>, yielded |-> <<>>]

\* after the loop: if buffer_lines: yield self._parse_sse_block(buffer_lines)
IterSseEnd(buffer_lines) ==
  IF buffer_lines # <<>>
  THEN [buffer_lines |-> buffer_lines,
        block |-> <<buffer_lines>>,
        yielded |-> <<ParseSseBlock(buffer_lines)>>]
  ELSE [buffer_lines |-> buffer_lines, block |-> <<>>, yielded |-> <<>>]

\* the events _iter_sse yields over the whole line stream ls
RECURSIVE IterSseFrom(_, _)
IterSseFrom(buffer_lines, ls) ==
  IF ls = <<>> THEN IterSseEnd(buffer_lines).yielded
  ELSE
    LET it == IterSseLine(buffer_lines, Head(ls)) IN
    it.yielded \o IterSseFrom(it.buffer_lines, Tail(ls))

IterSse(ls) == IterSseFrom(<<>>, ls)

\* ------------------------------------------- run_agent_stream / _post_sse

EventChunk(event) == [type |-> "event", event |-> event]
ContentChunk(content) == [type |-> "content", content |-> content]
FinalChunk(content) == [type |-> "final", content |-> content]
ErrorChunk(error) == [type |-> "error", error |-> error]

\* mutant: a content / final chunk also for empty content
StreamBodyNoContentCheck(event, ye) ==
  IF ~Truthy(event) THEN <<>>
  ELSE
    (IF ye THEN <<EventChunk(event)>> ELSE <<>>)
    \o (IF Get(event, K("event")) = Str(<<"response">>)
        THEN <<FinalChunk(ExtractContent(event))>>
        ELSE <<ContentChunk(ExtractContent(event))>>)

\* mutant: the event chunk comes after the content / final chunk
StreamBodyEventLast(event, ye) ==
  IF ~Truthy(event) THEN <<>>
  ELSE
    LET content == ExtractContent(event) IN
    (IF Get(event, K("event")) = Str(<<"response">>)
     THEN IF content # <<>> THEN <<FinalChunk(content)>> ELSE <<>>
     ELSE IF content # <<>> THEN <<ContentChunk(content)>> ELSE <<>>)
    \o (IF ye THEN <<EventChunk(event)>> ELSE <<>>)

\* mutant: with raw events enabled only the final content is passed on
StreamBodyEventsHideContent(event, ye) ==
  IF ~Truthy(event) THEN <<>>
  ELSE
    LET content == ExtractContent(event) IN
    (IF ye THEN <<EventChunk(event)>> ELSE <<>>)
    \o (IF Get(event, K("event")) = Str(<<"response">>)
        THEN IF content # <<>> THEN <<FinalChunk(content)>> ELSE <<>>
        ELSE IF content # <<>> /\ ~ye THEN <<ContentChunk(content)>> ELSE <<>>)

\* mutant: the event chunk of an event with content is yielded again after it
StreamBodyEventTwice(event, ye) ==
  IF ~Truthy(event) THEN <<>>
  ELSE
    LET content == ExtractContent(event) IN
    (IF ye THEN <<EventChunk(event)>> ELSE <<>>)
    \o (IF Get(event, K("event")) = Str(<<"response">>)
        THEN IF content # <<>> THEN <<FinalChunk(content)>> ELSE <<>>
        ELSE IF content # <<>> THEN <<ContentChunk(content)>> ELSE <<>>)
    \o (IF ye /\ content # <<>> THEN <<EventChunk(event)>> ELSE <<>>)

\* the body of run_agent_stream's loop for one yielded event: the chunks it yields
StreamBody(event, ye) ==
  IF ~Truthy(event) THEN <<>>
  ELSE
    LET event_name == IF IsDict(event) THEN Get(event, K("event")) ELSE None
        content == ExtractContent(event)
    IN
    (IF ye THEN <<EventChunk(event)>> ELSE <<>>)
    \o (IF event_name = Str(<<"response">>)
        THEN IF content # <<>> THEN <<FinalChunk(content)>> ELSE <<>>
        ELSE IF content # <<>> THEN <<ContentChunk(content)>> ELSE <<>>)

\* mutant: only the content of `response`-named events is collected
PostSseBodyFinalOnly(event) ==
  IF ~Truthy(event) THEN [events |-> <<>>, full_text |-> <<>>]
  ELSE
    LET content == ExtractContent(event) IN
    [events |-> <<event>>,
     full_text |-> IF content # <<>> /\ Get(event, K("event")) = Str(<<"response">>)
                   THEN <<content>>
                   ELSE <<>>]

\* the body of _post_sse's loop for one yielded event: what it appends to
\* events and to full_text
PostSseBody(event) ==
  IF ~Truthy(event) THEN [events |-> <<>>, full_text |-> <<>>]
  ELSE
    LET content == ExtractContent(event) IN
    [events |-> <<event>>, full_text |-> IF content # <<>> THEN <<content>> ELSE <<>>]

\* resp.text[:2000]
TruncLen == 2000
Truncated(text) == IF Len(text) > TruncLen THEN SubSeq(text, 1, TruncLen) ELSE text

\* f"HTTP {resp.status_code}: {resp.text[:2000]}"
HttpStatusError(status_code, text) == <<"HTTP ", status_code, ": ">> \o Truncated(text)

\* exceptions: [name, has_response, status_code, text]; str(exc) is the name
Exc(name) == [name |-> name, has_response |-> FALSE, status_code |-> "", text |-> <<>>]

FormatHttpError(exc) ==
  IF exc.has_response
  THEN <<exc.name, " | ">> \o HttpStatusError(exc.status_code, exc.text)
  ELSE <<exc.name>>

\* requests.RequestException and its subclasses
RequestExceptions ==
  {"RequestException", "ReadTimeout", "ConnectionError", "HTTPError", "JSONDecodeError"}
IsRequestException(exc) == exc.name \in RequestExceptions

\* mutant: only the ReadTimeout clause
StreamHandlerTimeoutOnly(exc) ==
  IF exc.name = "ReadTimeout" THEN "timeout" ELSE "raise"

\* the except clause of run_agent_stream that takes exc ("raise": none does)
StreamHandler(exc) ==
  IF exc.name = "ReadTimeout" THEN "timeout"
  ELSE IF IsRequestException(exc) THEN "request"
  ELSE "raise"

\* the except clause of _post_sse and _post_json that takes exc
PostHandler(exc) == IF IsRequestException(exc) THEN "request" ELSE "raise"

\* the value the except clauses of run_agent_stream give to last_error
StreamError(exc) ==
  IF StreamHandler(exc) = "timeout"
  THEN <<"Stream read timeout: ", exc.name>>
  ELSE FormatHttpError(exc)

\* ------------------------------------------------------------ Threads API

ThreadOps == {"create_thread", "list_threads", "get_thread", "describe_thread", "delete_thread"}

True == [t |-> "bool", s |-> <<"True">>, l |-> <<>>]
False == [t |-> "bool", s |-> <<"False">>, l |-> <<>>]

\* resp.raise_for_status(): HTTPError, with the response, for a status that is not 2xx
HttpError(status_code, text) ==
  [name |-> "HTTPError", has_response |-> TRUE, status_code |-> status_code, text |-> text]

\* what the except clause of the operation returns
ThreadFailure(o) ==
  IF o = "list_threads" THEN List(<<>>)
  ELSE IF o = "delete_thread" THEN False
  ELSE None

\* what the try block of the operation does with a 2xx response whose body is
\* text: the value returned, or the exception raised
ThreadTry(o, text) ==
  LET r == JsonLoads(text)
      data == r.v
  IN
  IF o = "delete_thread" THEN [raises |-> FALSE, value |-> True, exc |-> Exc("")]
  ELSE IF ~r.ok THEN [raises |-> TRUE, value |-> None, exc |-> Exc("JSONDecodeError")]
  ELSE IF o = "create_thread"
  THEN IF IsDict(data)
       THEN [raises |-> FALSE, value |-> Get(data, K("thread_id")), exc |-> Exc("")]
       ELSE [raises |-> TRUE, value |-> None, exc |-> Exc("AttributeError")]
  ELSE IF o = "list_threads"
  THEN [raises |-> FALSE,
        value |-> IF IsDict(data) /\ Has(data, K("threads")) /\ IsList(Get(data, K("threads")))
                  THEN Get(data, K("threads"))
                  ELSE IF IsList(data) THEN data
                  ELSE List(<<>>),
        exc |-> Exc("")]
  ELSE [raises |-> FALSE, value |-> data, exc |-> Exc("")]

\* ------------------------------------------------------------------ inputs

Q(atoms) == <<Quote>> \o atoms \o <<Quote>>
KV(key, value) == Q(<<key>>) \o <<":">> \o value
EventLine(name) == <<"event:", " ", name>>
DataLine(atoms) == <<"data:", " ">> \o atoms

Blank == <<>>
LEventResponse == EventLine("response")
LEventDelta == EventLine("response.text.delta")
LEventEmpty == <<"event:">>
\* data: {"text":"Hi"}
LDataText == DataLine(<<"{">> \o KV("text", Q(<<"Hi">>)) \o <<"}">>)
\* data: {"event":"response","content":"Hi"}
LDataOwnEvent ==
  DataLine(<<"{">> \o KV("event", Q(<<"response">>)) \o <<",">>
           \o KV("content", Q(<<"Hi">>)) \o <<"}">>)
\* a data: line holding whitespace only
LDataBlank == <<"data:", " ", " ">>
\* data: [DONE]
LDataRaw == DataLine(<<"[DONE]">>)
\* : keepalive
LComment == <<":", "keepalive">>
\* data: {"text":      and      data: "Hi"}
LDataOpen == DataLine(<<"{">> \o Q(<<"text">>) \o <<":">>)
LDataClose == DataLine(Q(<<"Hi">>) \o <<"}">>)
\* data: 5
LDataScalar == DataLine(<<"5">>)
\* data: {}
LDataEmptyObj == DataLine(<<"{", "}">>)

Lines ==
  {Blank, LEventResponse, LEventDelta, LEventEmpty, LDataText, LDataOwnEvent, LDataBlank,
   LDataRaw, LComment, LDataOpen, LDataClose, LDataScalar, LDataEmptyObj}

RunLines == {Blank, LEventDelta, LDataText, LDataOwnEvent}

\* the stream of the run [response.status, response.text.delta("Hi"),
\* response.text.delta(" there"), response(content="Hi there")]
ExampleStream ==
  << EventLine("response.status"),
     DataLine(<<"{">> \o KV("status", Q(<<"planning">>)) \o <<"}">>),
     Blank,
     LEventDelta,
     LDataText,
     Blank,
     LEventDelta,
     DataLine(<<"{">> \o KV("text", Q(<<" ", "there">>)) \o <<"}">>),
     Blank,
     LEventResponse,
     DataLine(<<"{">> \o KV("content", Q(<<"Hi", " ", "there">>)) \o <<"}">>),
     Blank >>

ExampleLines == {ExampleStream[i] : i \in 1..Len(ExampleStream)}

IsPrefix(s, t) == Len(s) <= Len(t) /\ SubSeq(t, 1, Len(s)) = s

UserMessage(text) ==
  Obj(<< Member(K("role"), Str(<<"user">>)),
         Member(K("content"),
                List(<<Obj(<<Member(K("type"), TextStr), Member(K("text"), Str(text))>>)>>)) >>)

Msg1 == UserMessage(<<"Hi">>)
Msg2 == UserMessage(<<"there">>)
MessageLists == {List(<<Msg1>>), List(<<Msg2>>), List(<<Msg1, Msg2>>)}
ThreadIds == {None, Str(<<"t1">>)}
ParentIds == {None, Str(<<"0">>)}
ToolChoices == {None, Obj(<<Member(K("type"), Str(<<"auto">>))>>)}

\* the arguments of a run: every combination, and those with one fixed message list
Args ==
  [messages : MessageLists, thread_id : ThreadIds, parent_message_id : ParentIds,
   tool_choice : ToolChoices]
OneListArgs ==
  [messages : {List(<<Msg1>>)}, thread_id : ThreadIds, parent_message_id : ParentIds,
   tool_choice : ToolChoices]

\* normalized events, as _parse_sse_block returns them for a JSON object payload:
\* the payload's members, then the frame's name (none for an unnamed frame)
Event(name, members) ==
  IF name = "" THEN Obj(members) ELSE Obj(Append(members, Member(K("event"), Str(<<name>>))))

TextBlock(text) == Obj(<<Member(K("type"), TextStr), Member(K("text"), Str(<<text>>))>>)

\* "text": "Hello"  /  "text": 5  /  "content": "Hi"
MText == Member(K("text"), Str(<<"Hello">>))
MTextNum == Member(K("text"), Num("5"))
MContent == Member(K("content"), Str(<<"Hi">>))
\* "content": [{"type":"text","text":"A"},{"type":"text","text":"B"}]
MContentAB == Member(K("content"), List(<<TextBlock("A"), TextBlock("B")>>))
\* "content": [{"text":"A"}, 5, {"type":"image"}, {"type":"text","text":"B"}]
MContentMixed ==
  Member(K("content"),
         List(<< Obj(<<Member(K("text"), Str(<<"A">>))>>), Num("5"),
                 Obj(<<Member(K("type"), Str(<<"image">>))>>), TextBlock("B") >>))
\* "content": [5]
MContentNoText == Member(K("content"), List(<<Num("5")>>))
\* "output": {"messages": [{"content": [{"type":"text","text":"X"}]}]}
MOutput ==
  Member(K("output"),
         Obj(<<Member(K("messages"),
                      List(<<Obj(<<Member(K("content"), List(<<TextBlock("X")>>))>>)>>))>>))

Events ==
  {None}
  \cup {Event("response.text.delta", m) :
          m \in {<<MText>>, <<MText, MContent>>, <<MTextNum, MContent>>, <<MContent>>}}
  \cup {Event("response.text", m) : m \in {<<MText>>, <<MTextNum, MContent>>}}
  \cup {Event("response", m) :
          m \in {<<MContent>>, <<MContentAB>>, <<MContentMixed>>, <<MContentNoText, MOutput>>,
                 <<>>}}
  \cup {Event("response.status", m) :
          m \in {<<MContent>>, <<MContentMixed>>, <<MOutput>>, <<>>}}
  \cup {Event("", m) : m \in {<<MText>>, <<MContent>>, <<>>}}

\* response bodies of the Threads API: {"thread_id":"t1"}, {"threads":[{}]}, {},
\* [], [{}], "Hi", 5, and text that is not JSON
ThreadBodies ==
  { <<"{">> \o KV("thread_id", Q(<<"t1">>)) \o <<"}">>,
    <<"{">> \o KV("threads", <<"[", "{", "}", "]">>) \o <<"}">>,
    <<"{", "}">>,
    <<"[", "]">>,
    <<"[", "{", "}", "]">>,
    Q(<<"Hi">>),
    <<"5">>,
    <<"oops">> }

StatusCodes == {"200", "503"}
\* response bodies of run_agent(stream=False): JSON, or not
JsonBodies == {<<"{", "}">>, <<"oops">>}
\* response bodies of a non-200 answer: empty, or text that reads as an SSE block
Bodies == {<<>>, LDataOwnEvent \o <<"\n", "\n">>}
Excs == {Exc("ReadTimeout"), Exc("ConnectionError")}

\* --------------------------------------------------------- construction

\* str.rstrip('/')
RECURSIVE RStripSlash(_)
RStripSlash(s) ==
  IF s # <<>> /\ s[Len(s)] = "/" THEN RStripSlash(SubSeq(s, 1, Len(s) - 1)) ELSE s

\* __init__: the normalized base URL, the headers of the session, the TLS flag
\* and the timeouts
NewClient(account_url, auth_token) ==
  LET stripped == Strip(account_url)
      normalized == IF stripped # <<>>
                       /\ ~(StartsWith(stripped, "http://") \/ StartsWith(stripped, "https://"))
                    THEN <<"https://">> \o stripped
                    ELSE stripped
  IN
  [base_url |-> RStripSlash(normalized),
   headers |-> Obj(<<Member(K("Authorization"), Str(<<"Bearer ">> \o auth_token)),
                     Member(K("Content-Type"), Str(<<"application/json">>)),
                     Member(K("Accept"), Str(<<"application/json">>))>>),
   verify |-> FALSE,
   timeout_seconds |-> 300,
   read_timeout_seconds |-> 120]

\* ensure_session_state on the first script run
NoSession ==
  [thread_id |-> None, parent_message_id |-> None, messages |-> <<>>,
   loaded_thread_id |-> None]

\* no run is being displayed
NoScript ==
  [phase |-> "idle", consumed |-> 0, thread_id |-> None, parent_message_id |-> None,
   finals |-> 0, failed |-> FALSE]

\* ------------------------------------------------------------------- state

VARIABLES
  pc,             \* "idle", "requested", "bad_status", "error_yielded" (suspended at
                  \* the yield of line 175), "streaming", "done"
  op,             \* "run_agent_stream", "run_agent" ("none" when idle)
  stream,         \* run_agent's stream argument
  yield_events,   \* run_agent_stream's yield_events argument
  request,        \* the request in flight: the call's arguments and its json payload
  status_code,    \* resp.status_code ("" before the response)
  conn,           \* TRUE while the response of session.post is held open
  lines,          \* the lines resp.iter_lines has delivered so far
  buffer_lines,   \* _iter_sse's accumulator
  blocks,         \* the blocks handed to _parse_sse_block so far
  parsed,         \* the events _iter_sse has yielded so far
  chunks,         \* the chunks run_agent_stream has yielded so far
  events,         \* _post_sse's events
  full_text,      \* _post_sse's full_text
  result,         \* run_agent's return value
  outcome,        \* how the run ended: "none", "eof", "bad_status", "exception" (caught),
                  \* "raised" (an exception left the operation), "json"
  last_error,     \* self.last_error
  runs,           \* runs started on this client
  earlier,        \* the messages passed to the runs before the current one
  passed,         \* the messages passed to the runs so far
  closed,         \* TRUE once the caller has closed the generator of the run
  config,         \* the client's base_url, session headers, TLS flag and timeouts
  session_state,  \* the app's st.session_state: thread_id, parent_message_id,
                  \* messages, loaded_thread_id
  script          \* the app's script run: its phase, the chunks of the run it has
                  \* handled, and what the run started from

vars ==
  << pc, op, stream, yield_events, request, status_code, conn, lines, buffer_lines, blocks,
     parsed, chunks, events, full_text, result, outcome, last_error, runs, earlier, passed,
     closed, config, session_state, script >>

appVars == << session_state, script >>

NoRequest == [args |-> <<>>, json |-> None]
NoResult == [status |-> "none"]

runVars == << lines, buffer_lines, blocks, parsed, chunks, events, full_text >>

Init ==
  /\ pc = "idle"
  /\ op = "none"
  /\ stream = FALSE
  /\ yield_events = FALSE
  /\ request = NoRequest
  /\ status_code = ""
  /\ conn = FALSE
  /\ lines = <<>>
  /\ buffer_lines = <<>>
  /\ blocks = <<>>
  /\ parsed = <<>>
  /\ chunks = <<>>
  /\ events = <<>>
  /\ full_text = <<>>
  /\ result = NoResult
  /\ outcome = "none"
  /\ last_error = None
  /\ runs = 0
  /\ earlier = {}
  /\ passed = {}
  /\ closed = FALSE
  /\ config = NewClient(<<" ", "acct.example", "/", "\n">>, <<"token">>)
  /\ session_state = NoSession
  /\ script = NoScript

Elems(list) == {list.l[i] : i \in 1..Len(list.l)}

RECURSIVE SeqOf(_)
SeqOf(set) ==
  IF set = {} THEN <<>>
  ELSE LET x == CHOOSE x \in set : TRUE IN <<x>> \o SeqOf(set \ {x})

\* mutant: the thread keys are added when either id is given
RunAgentPayloadEither(messages, thread_id, parent_message_id, tool_choice) ==
  LET p0 == Obj(<<Member(K("messages"), messages)>>)
      p1 == IF tool_choice # None THEN Put(p0, K("tool_choice"), tool_choice) ELSE p0
  IN
  IF thread_id # None \/ parent_message_id # None
  THEN Put(Put(p1, K("thread_id"), thread_id), K("parent_message_id"), parent_message_id)
  ELSE p1

\* the payload run_agent builds
RunAgentPayload(messages, thread_id, parent_message_id, tool_choice) ==
  LET p0 == Obj(<<Member(K("messages"), messages)>>)
      p1 == IF tool_choice # None THEN Put(p0, K("tool_choice"), tool_choice) ELSE p0
  IN
  IF thread_id # None /\ parent_message_id # None
  THEN Put(Put(p1, K("thread_id"), thread_id), K("parent_message_id"), parent_message_id)
  ELSE p1

\* mutant: on a continued thread the messages of the earlier runs are sent again
RunAgentStreamPayloadInjecting(messages, thread_id, parent_message_id, tool_choice) ==
  LET both == thread_id # None /\ parent_message_id # None
      sent == IF both
              THEN List(SeqOf(passed \ Elems(messages)) \o messages.l)
              ELSE messages
      p0 == Obj(<<Member(K("messages"), sent)>>)
      p1 == IF tool_choice # None THEN Put(p0, K("tool_choice"), tool_choice) ELSE p0
  IN
  IF both
  THEN Put(Put(p1, K("thread_id"), thread_id), K("parent_message_id"), parent_message_id)
  ELSE p1

\* the payload run_agent_stream builds
RunAgentStreamPayload(messages, thread_id, parent_message_id, tool_choice) ==
  LET p0 == Obj(<<Member(K("messages"), messages)>>)
      p1 == IF tool_choice # None THEN Put(p0, K("tool_choice"), tool_choice) ELSE p0
  IN
  IF thread_id # None /\ parent_message_id # None
  THEN Put(Put(p1, K("thread_id"), thread_id), K("parent_message_id"), parent_message_id)
  ELSE p1

\* run_agent_stream is called: the payload is built and the POST is sent
RunAgentStream(a, ye) ==
  /\ pc = "idle"
  /\ pc' = "requested"
  /\ op' = "run_agent_stream"
  /\ yield_events' = ye
  /\ request' = [args |-> <<a>>,
                 json |-> RunAgentStreamPayload(a.messages, a.thread_id,
                                                a.parent_message_id, a.tool_choice)]
  /\ runs' = runs + 1
  /\ earlier' = passed
  /\ passed' = passed \cup Elems(a.messages)
  /\ UNCHANGED << stream, status_code, conn, runVars, result, outcome, closed, config >>

\* a caller starts run_agent_stream on a client it holds
CallRunAgentStream(a, ye) == RunAgentStream(a, ye) /\ UNCHANGED << last_error, appVars >>

\* the caller starts run_agent: the payload is built and the POST is sent
CallRunAgent(a, st) ==
  /\ pc = "idle"
  /\ pc' = "requested"
  /\ op' = "run_agent"
  /\ stream' = st
  /\ request' = [args |-> <<a>>,
                 json |-> RunAgentPayload(a.messages, a.thread_id,
                                          a.parent_message_id, a.tool_choice)]
  /\ runs' = runs + 1
  /\ earlier' = passed
  /\ passed' = passed \cup Elems(a.messages)
  /\ UNCHANGED << yield_events, status_code, conn, runVars, result, outcome, last_error,
                  closed, config, appVars >>

Streaming == op = "run_agent_stream" \/ (op = "run_agent" /\ stream)

\* mutant: the status is not looked at
RespondNoStatusCheck(sc) ==
  /\ pc = "requested"
  /\ Streaming
  /\ pc' = "streaming"
  /\ status_code' = sc
  /\ conn' = TRUE
  /\ request' = NoRequest
  /\ UNCHANGED << op, stream, yield_events, runVars, result, outcome, last_error, runs,
                  earlier, passed, closed, config, appVars >>

\* session.post returns the response of a streaming request
Respond(sc) ==
  /\ pc = "requested"
  /\ Streaming
  /\ pc' = IF sc = "200" THEN "streaming" ELSE "bad_status"
  /\ status_code' = sc
  /\ conn' = TRUE
  /\ request' = NoRequest
  /\ UNCHANGED << op, stream, yield_events, runVars, result, outcome, last_error, runs,
                  earlier, passed, closed, config, appVars >>

\* mutant: no return after the error chunk of a bad status
BadStatusNoReturn(text) ==
  /\ pc = "bad_status"
  /\ pc' = "streaming"
  /\ IF op = "run_agent_stream"
     THEN /\ chunks' = Append(chunks, ErrorChunk(HttpStatusError(status_code, text)))
          /\ UNCHANGED result
     ELSE /\ result' = [status |-> "error", error |-> HttpStatusError(status_code, text)]
          /\ UNCHANGED chunks
  /\ UNCHANGED << op, stream, yield_events, request, status_code, conn, lines, buffer_lines,
                  blocks, parsed, events, full_text, outcome, last_error, runs, earlier,
                  passed, closed, config, appVars >>

\* status_code != 200: resp.text is read and the error is yielded / returned;
\* run_agent_stream stays suspended at its yield, inside the with block
BadStatus(text) ==
  /\ pc = "bad_status"
  /\ outcome' = "bad_status"
  /\ IF op = "run_agent_stream"
     THEN /\ chunks' = Append(chunks, ErrorChunk(HttpStatusError(status_code, text)))
          /\ pc' = "error_yielded"
          /\ UNCHANGED << result, conn >>
     ELSE /\ result' = [status |-> "error", error |-> HttpStatusError(status_code, text)]
          /\ pc' = "done"
          /\ conn' = FALSE
          /\ UNCHANGED chunks
  /\ UNCHANGED << op, stream, yield_events, request, status_code, lines, buffer_lines,
                  blocks, parsed, events, full_text, last_error, runs, earlier,
                  passed, closed, config, appVars >>

\* the caller asks for the chunk after the error chunk: return, the with block
\* exits and the sequence is finished
BadStatusReturn ==
  /\ pc = "error_yielded"
  /\ pc' = "done"
  /\ conn' = FALSE
  /\ UNCHANGED << op, stream, yield_events, request, status_code, runVars, result, outcome,
                  last_error, runs, earlier, passed, closed, config, appVars >>

\* what the loop bodies do with the events _iter_sse yielded in one turn
RECURSIVE StreamChunks(_, _)
StreamChunks(yielded, ye) ==
  IF yielded = <<>> THEN <<>>
  ELSE StreamBody(Head(yielded), ye) \o StreamChunks(Tail(yielded), ye)

RECURSIVE PostSseEvents(_)
PostSseEvents(yielded) ==
  IF yielded = <<>> THEN <<>>
  ELSE PostSseBody(Head(yielded)).events \o PostSseEvents(Tail(yielded))

RECURSIVE PostSseText(_)
PostSseText(yielded) ==
  IF yielded = <<>> THEN <<>>
  ELSE PostSseBody(Head(yielded)).full_text \o PostSseText(Tail(yielded))

Consume(it) ==
  /\ buffer_lines' = it.buffer_lines
  /\ blocks' = blocks \o it.block
  /\ parsed' = parsed \o it.yielded
  /\ IF op = "run_agent_stream"
     THEN /\ chunks' = chunks \o StreamChunks(it.yielded, yield_events)
          /\ UNCHANGED << events, full_text >>
     ELSE /\ events' = events \o PostSseEvents(it.yielded)
          /\ full_text' = full_text \o PostSseText(it.yielded)
          /\ UNCHANGED chunks

\* resp.iter_lines delivers one more line
RecvLine(line, alphabet, max) ==
  /\ pc = "streaming"
  /\ \/ line \in alphabet /\ Len(lines) < max
     \/ IsPrefix(Append(lines, line), ExampleStream)
  /\ lines' = Append(lines, line)
  /\ Consume(IterSseLine(buffer_lines, line))
  /\ UNCHANGED << pc, op, stream, yield_events, request, status_code, conn, result, outcome,
                  last_error, runs, earlier, passed, closed, config, appVars >>

\* mutant: nothing is yielded for the events that follow a final chunk
RecvEventStopAfterFinal(event) ==
  /\ pc = "streaming"
  /\ Len(parsed) < MaxEvents
  /\ parsed' = Append(parsed, event)
  /\ IF op = "run_agent_stream"
     THEN /\ chunks' = IF \E i \in 1..Len(chunks) : chunks[i].type = "final"
                       THEN chunks
                       ELSE chunks \o StreamBody(event, yield_events)
          /\ UNCHANGED << events, full_text >>
     ELSE /\ events' = events \o PostSseBody(event).events
          /\ full_text' = full_text \o PostSseBody(event).full_text
          /\ UNCHANGED chunks
  /\ UNCHANGED << pc, op, stream, yield_events, request, status_code, conn, lines,
                  buffer_lines, blocks, result, outcome, last_error, runs, earlier, passed,
                  closed, config, appVars >>

\* _iter_sse yields one more event: a block was closed and normalized to event
RecvEvent(event) ==
  /\ pc = "streaming"
  /\ Len(parsed) < MaxEvents
  /\ Consume([buffer_lines |-> buffer_lines, block |-> <<>>, yielded |-> <<event>>])
  /\ UNCHANGED << pc, op, stream, yield_events, request, status_code, conn, lines, result,
                  outcome, last_error, runs, earlier, passed, closed, config, appVars >>

\* mutant: a final chunk is made up when the stream ends without one
EndOfStreamSynthesizing ==
  /\ pc = "streaming"
  /\ pc' = "done"
  /\ outcome' = "eof"
  /\ conn' = FALSE
  /\ buffer_lines' = buffer_lines
  /\ blocks' = blocks \o IterSseEnd(buffer_lines).block
  /\ parsed' = parsed \o IterSseEnd(buffer_lines).yielded
  /\ events' = events \o PostSseEvents(IterSseEnd(buffer_lines).yielded)
  /\ full_text' = full_text \o PostSseText(IterSseEnd(buffer_lines).yielded)
  /\ chunks' = IF op # "run_agent_stream" THEN chunks
               ELSE LET cs == chunks \o StreamChunks(IterSseEnd(buffer_lines).yielded,
                                                     yield_events)
                    IN IF \E i \in 1..Len(cs) : cs[i].type = "final"
                       THEN cs
                       ELSE Append(cs, FinalChunk(<<>>))
  /\ IF op = "run_agent"
     THEN result' = [status |-> "success",
                     response |-> Join(full_text'),
                     events |-> events']
     ELSE UNCHANGED result
  /\ UNCHANGED << op, stream, yield_events, request, status_code, lines, last_error, runs,
                  earlier, passed, closed, config, appVars >>

\* resp.iter_lines is exhausted: the accumulator is flushed and the run ends
EndOfStream ==
  /\ pc = "streaming"
  /\ pc' = "done"
  /\ outcome' = "eof"
  /\ conn' = FALSE
  /\ Consume(IterSseEnd(buffer_lines))
  /\ IF op = "run_agent"
     THEN result' = [status |-> "success",
                     response |-> Join(full_text'),
                     events |-> events']
     ELSE UNCHANGED result
  /\ UNCHANGED << op, stream, yield_events, request, status_code, lines, last_error, runs,
                  earlier, passed, closed, config, appVars >>

\* run_agent_stream is suspended at a yield inside the with block: it has just
\* yielded the error chunk of a bad status, or a chunk of the last block read
Suspended ==
  \/ pc = "error_yielded"
  \/ /\ pc = "streaming" /\ op = "run_agent_stream"
     /\ parsed # <<>>
     /\ StreamBody(parsed[Len(parsed)], yield_events) # <<>>
     /\ IF lines = <<>> THEN TRUE ELSE lines[Len(lines)] = Blank

\* mutant: closing the generator leaves the response open
CloseNoRelease ==
  /\ Suspended
  /\ pc' = "done"
  /\ closed' = TRUE
  /\ UNCHANGED << op, stream, yield_events, request, status_code, conn, runVars, result,
                  outcome, last_error, runs, earlier, passed, config, appVars >>

\* the caller stops iterating and the generator is closed (by close(), or by the
\* interpreter when the for loop drops it): GeneratorExit is raised at the yield,
\* no except clause takes it, and the with block exits
Close ==
  /\ Suspended
  /\ pc' = "done"
  /\ conn' = FALSE
  /\ closed' = TRUE
  /\ UNCHANGED << op, stream, yield_events, request, status_code, runVars, result, outcome,
                  last_error, runs, earlier, passed, config, appVars >>

\* session.post, resp.text or resp.iter_lines raises exc: the matching except
\* clause records the error and yields / returns it; with no matching clause the
\* exception leaves the operation
RaiseRequestException(exc) ==
  /\ \/ pc = "requested" /\ op \in {"run_agent_stream", "run_agent"}
     \/ pc \in {"bad_status", "streaming"}
  /\ pc' = "done"
  /\ conn' = FALSE
  /\ request' = NoRequest
  /\ IF op = "run_agent_stream"
     THEN IF StreamHandler(exc) = "raise"
          THEN /\ outcome' = "raised"
               /\ UNCHANGED << last_error, chunks, result >>
          ELSE /\ outcome' = "exception"
               /\ last_error' = Str(StreamError(exc))
               /\ chunks' = Append(chunks, ErrorChunk(StreamError(exc)))
               /\ UNCHANGED result
     ELSE IF PostHandler(exc) = "raise"
          THEN /\ outcome' = "raised"
               /\ UNCHANGED << last_error, chunks, result >>
          ELSE /\ outcome' = "exception"
               /\ last_error' = Str(FormatHttpError(exc))
               /\ result' = [status |-> "error", error |-> FormatHttpError(exc)]
               /\ UNCHANGED chunks
  /\ UNCHANGED << op, stream, yield_events, status_code, lines, buffer_lines, blocks, parsed,
                  events, full_text, runs, earlier, passed, closed, config, appVars >>

\* mutant: _post_json looks at the status as _post_sse does and records nothing
PostJsonStatusCheck(sc, text) ==
  /\ pc = "requested"
  /\ op = "run_agent" /\ ~stream
  /\ pc' = "done"
  /\ status_code' = sc
  /\ request' = NoRequest
  /\ IF sc # "200"
     THEN /\ outcome' = "bad_status"
          /\ result' = [status |-> "error", error |-> HttpStatusError(sc, text)]
          /\ UNCHANGED last_error
     ELSE IF JsonLoads(text).ok
     THEN /\ outcome' = "json"
          /\ result' = [status |-> "success", json |-> JsonLoads(text).v]
          /\ UNCHANGED last_error
     ELSE /\ outcome' = "exception"
          /\ last_error' = Str(FormatHttpError(Exc("JSONDecodeError")))
          /\ result' = [status |-> "error", error |-> FormatHttpError(Exc("JSONDecodeError"))]
  /\ UNCHANGED << op, stream, yield_events, conn, runVars, runs, earlier, passed, closed,
                  config, appVars >>

\* run_agent(stream=False), _post_json: the response arrives; raise_for_status
\* raises HTTPError for a status that is not 2xx, resp.json() raises for a body
\* that is not JSON, and the except clause records and returns the error
PostJson(sc, text) ==
  /\ pc = "requested"
  /\ op = "run_agent" /\ ~stream
  /\ pc' = "done"
  /\ status_code' = sc
  /\ request' = NoRequest
  /\ IF sc # "200"
     THEN /\ outcome' = "exception"
          /\ last_error' = Str(FormatHttpError(HttpError(sc, text)))
          /\ result' = [status |-> "error", error |-> FormatHttpError(HttpError(sc, text))]
     ELSE IF JsonLoads(text).ok
     THEN /\ outcome' = "json"
          /\ result' = [status |-> "success", json |-> JsonLoads(text).v]
          /\ UNCHANGED last_error
     ELSE /\ outcome' = "exception"
          /\ last_error' = Str(FormatHttpError(Exc("JSONDecodeError")))
          /\ result' = [status |-> "error", error |-> FormatHttpError(Exc("JSONDecodeError"))]
  /\ UNCHANGED << op, stream, yield_events, conn, runVars, runs, earlier, passed, closed,
                  config, appVars >>

\* the caller starts an operation of the Threads API: the request is sent
CallThread(o) ==
  /\ pc = "idle"
  /\ pc' = "requested"
  /\ op' = o
  /\ request' = [args |-> <<>>,
                 json |-> IF o = "create_thread"
                          THEN Obj(<<Member(K("origin_application"), Str(<<"hcls_agent_st">>))>>)
                          ELSE None]
  /\ runs' = runs + 1
  /\ UNCHANGED << stream, yield_events, status_code, conn, runVars, result, outcome,
                  last_error, earlier, passed, closed, config, appVars >>

\* the operation ends in its except clause: the error is recorded, the failure
\* value returned
ThreadExcept(exc) ==
  /\ outcome' = "exception"
  /\ last_error' = Str(FormatHttpError(exc))
  /\ result' = [status |-> "returned", value |-> ThreadFailure(op)]

\* the response of a Threads API request arrives: raise_for_status, then the try
\* block's use of the body; an exception no except clause takes leaves the
\* operation
ThreadRespond(sc, text) ==
  /\ pc = "requested"
  /\ op \in ThreadOps
  /\ pc' = "done"
  /\ status_code' = sc
  /\ request' = NoRequest
  /\ IF sc # "200"
     THEN ThreadExcept(HttpError(sc, text))
     ELSE LET t == ThreadTry(op, text) IN
          IF ~t.raises
          THEN /\ outcome' = "returned"
               /\ result' = [status |-> "returned", value |-> t.value]
               /\ UNCHANGED last_error
          ELSE IF IsRequestException(t.exc)
          THEN ThreadExcept(t.exc)
          ELSE /\ outcome' = "raised"
               /\ UNCHANGED << result, last_error >>
  /\ UNCHANGED << op, stream, yield_events, conn, runVars, runs, earlier, passed, closed,
                  config, appVars >>

\* session.post / get / delete of a Threads API request raises exc
ThreadRaise(exc) ==
  /\ pc = "requested"
  /\ op \in ThreadOps
  /\ pc' = "done"
  /\ request' = NoRequest
  /\ ThreadExcept(exc)
  /\ UNCHANGED << op, stream, yield_events, status_code, conn, runVars, runs, earlier, passed,
                  closed, config, appVars >>

\* the caller is done with the run and uses the same client for the next one
Return ==
  /\ pc = "done"
  /\ runs < MaxRuns
  /\ pc' = "idle"
  /\ op' = "none"
  /\ stream' = FALSE
  /\ yield_events' = FALSE
  /\ status_code' = ""
  /\ lines' = <<>>
  /\ buffer_lines' = <<>>
  /\ blocks' = <<>>
  /\ parsed' = <<>>
  /\ chunks' = <<>>
  /\ events' = <<>>
  /\ full_text' = <<>>
  /\ result' = NoResult
  /\ outcome' = "none"
  /\ closed' = FALSE
  /\ UNCHANGED << request, conn, last_error, runs, earlier, passed, config, appVars >>

Call(args) ==
  \E a \in args :
    \/ \E ye \in BOOLEAN : CallRunAgentStream(a, ye)
    \/ \E st \in BOOLEAN : CallRunAgent(a, st)

Exchange ==
  \/ \E sc \in StatusCodes : Respond(sc)
  \/ \E text \in Bodies : BadStatus(text)
  \/ BadStatusReturn
  \/ Close
  \/ EndOfStream
  \/ \E exc \in Excs : RaiseRequestException(exc)
  \/ \E sc \in StatusCodes, text \in JsonBodies : PostJson(sc, text)

\* one run on a fresh client, over every line stream of up to MaxLines lines
Next ==
  \/ Call(OneListArgs)
  \/ Exchange
  \/ \E line \in Lines \cup ExampleLines : RecvLine(line, Lines, MaxLines)

Spec == Init /\ [][Next]_vars

\* an EndOfStream step, told by what it does to pc and outcome
StreamEnd == pc = "streaming" /\ pc' = "done" /\ outcome' = "eof"

\* one fully consumed run over a finite line stream: the request is answered,
\* the caller keeps asking for the next chunk, and resp.iter_lines is exhausted
\* in the end
SpecLive ==
  /\ Init /\ [][Next]_vars
  /\ WF_vars(\E sc \in StatusCodes : Respond(sc))
  /\ WF_vars(\E text \in Bodies : BadStatus(text))
  /\ WF_vars(BadStatusReturn)
  /\ WF_pc(StreamEnd)

\* up to MaxRuns runs, one after the other, on the same client
NextRuns ==
  \/ Call(Args)
  \/ Exchange
  \/ \E line \in RunLines : RecvLine(line, RunLines, MaxRunLines)
  \/ Return

SpecRuns == Init /\ [][NextRuns]_vars

\* one run on a fresh client, over every sequence of up to MaxEvents normalized
\* events
NextEvents ==
  \/ Call(OneListArgs)
  \/ Exchange
  \/ \E event \in Events : RecvEvent(event)

SpecEvents == Init /\ [][NextEvents]_vars

\* up to MaxRuns operations of the Threads API, one after the other, on the same
\* client
NextThreads ==
  \/ \E o \in ThreadOps : CallThread(o)
  \/ \E sc \in StatusCodes, text \in ThreadBodies : ThreadRespond(sc, text)
  \/ \E exc \in Excs : ThreadRaise(exc)
  \/ Return

SpecThreads == Init /\ [][NextThreads]_vars

\* up to MaxRuns operations of any kind, one after the other, on the same client
NextClient ==
  \/ Call(OneListArgs)
  \/ Exchange
  \/ \E line \in RunLines : RecvLine(line, RunLines, MaxRunLines)
  \/ \E o \in ThreadOps : CallThread(o)
  \/ \E sc \in StatusCodes, text \in ThreadBodies : ThreadRespond(sc, text)
  \/ \E exc \in Excs : ThreadRaise(exc)
  \/ Return

SpecClient == Init /\ [][NextClient]_vars

\* -------------------------------------------------------------------- app

\* str() of a thread id or a message id; a list or a dict gives its repr, which
\* is not spelled out
PyStr(x) ==
  IF x.t = "str" THEN x
  ELSE IF x.t \in {"num", "bool"} THEN Str(x.s)
  ELSE IF x = None THEN Str(<<"None">>)
  ELSE Str(<<"repr">>)

\* the chart block the loader keeps: its type, and the chart_spec string found
\* in the block, in its chart or in its json
NormChart(block) ==
  LET chart == Get(block, K("chart"))
      json == Get(block, K("json"))
      base == Obj(<<Member(K("type"), Str(<<"chart">>))>>)
  IN
  IF IsStr(Get(block, K("chart_spec")))
  THEN Put(base, K("chart_spec"), Get(block, K("chart_spec")))
  ELSE IF IsDict(chart) /\ IsStr(Get(chart, K("chart_spec")))
  THEN Put(base, K("chart_spec"), Get(chart, K("chart_spec")))
  ELSE IF IsDict(json) /\ IsStr(Get(json, K("chart_spec")))
  THEN Put(base, K("chart_spec"), Get(json, K("chart_spec")))
  ELSE base

\* the blocks the loader keeps of the content of a stored payload
RECURSIVE KeptBlocks(_)
KeptBlocks(content_blocks) ==
  IF content_blocks = <<>> THEN <<>>
  ELSE
    LET block == Head(content_blocks)
        btype == Get(block, K("type"))
        rest == KeptBlocks(Tail(content_blocks))
    IN
    IF ~IsDict(block) \/ btype = Str(<<"thinking">>) THEN rest
    ELSE IF btype = TextStr /\ IsStr(Get(block, K("text")))
    THEN <<TextBlock(Get(block, K("text")).s[1])>> \o rest
    ELSE IF btype = Str(<<"chart">>) THEN <<NormChart(block)>> \o rest
    ELSE IF btype = Str(<<"table">>) THEN <<block>> \o rest
    ELSE rest

\* what the loader renders for one message of the thread: nothing for a message
\* that is not a dict or has no string payload
RenderMessage(m) ==
  IF ~IsDict(m) \/ ~IsStr(Get(m, K("message_payload"))) THEN <<>>
  ELSE
    LET role0 == IF Has(m, K("role")) THEN Get(m, K("role")) ELSE Str(<<"assistant">>)
        payload == Get(m, K("message_payload"))
        lead == LStrip(payload.s)
        r == JsonLoads(payload.s)
        loaded == IF lead # <<>> /\ lead[1] \in {"{", "["} /\ r.ok THEN r.v ELSE None
        role == IF IsDict(loaded) /\ Has(loaded, K("role")) THEN Get(loaded, K("role"))
                ELSE role0
        kept == IF IsDict(loaded) /\ IsList(Get(loaded, K("content")))
                THEN KeptBlocks(Get(loaded, K("content")).l)
                ELSE <<>>
    IN
    IF kept # <<>>
    THEN <<Obj(<<Member(K("role"), role), Member(K("content"), List(kept))>>)>>
    ELSE <<Obj(<<Member(K("role"), role),
                 Member(K("content"),
                        List(<<Obj(<<Member(K("type"), TextStr),
                                     Member(K("text"), payload)>>)>>))>>)>>

\* the messages of the thread, oldest first, as the loader renders them
RECURSIVE RenderAll(_)
RenderAll(msgs) ==
  IF msgs = <<>> THEN <<>>
  ELSE RenderAll(Tail(msgs)) \o RenderMessage(Head(msgs))

Rendered(desc) ==
  IF IsDict(desc) /\ IsList(Get(desc, K("messages")))
  THEN RenderAll(Get(desc, K("messages")).l)
  ELSE <<>>

\* the id of the newest message of a describe_thread result, as a string; current
\* when there is none, or when looking for it raises
LatestId(desc, current) ==
  IF IsDict(desc) /\ IsList(Get(desc, K("messages"))) /\ Get(desc, K("messages")).l # <<>>
  THEN LET latest == Get(desc, K("messages")).l[1] IN
       IF IsDict(latest) /\ Get(latest, K("message_id")) # None
       THEN PyStr(Get(latest, K("message_id")))
       ELSE current
  ELSE current

\* mutant: the load sets the thread and leaves the parent to the history
AutoLoadNoDefault(ss, selected, desc) ==
  IF Truthy(selected) /\ selected # ss.loaded_thread_id
  THEN [thread_id |-> selected,
        parent_message_id |-> LatestId(desc, ss.parent_message_id),
        messages |-> Rendered(desc),
        loaded_thread_id |-> selected]
  ELSE ss

\* sidebar_threads: the selected thread is loaded when it is not the loaded one
AutoLoad(ss, selected, desc) ==
  IF Truthy(selected) /\ selected # ss.loaded_thread_id
  THEN [thread_id |-> selected,
        parent_message_id |-> LatestId(desc, Str(<<"0">>)),
        messages |-> Rendered(desc),
        loaded_thread_id |-> selected]
  ELSE ss

\* sidebar_threads: "New thread" was clicked and create_thread returned new_id
Created(ss, new_id) ==
  IF Truthy(new_id)
  THEN [thread_id |-> PyStr(new_id),
        parent_message_id |-> Str(<<"0">>),
        messages |-> <<>>,
        loaded_thread_id |-> PyStr(new_id)]
  ELSE ss

\* sidebar_threads: "Delete current thread" was clicked and delete_thread
\* returned ok
Deleted(ss, ok) ==
  IF Truthy(ss.thread_id) /\ ok THEN NoSession ELSE ss

\* main: the submitted text is appended to the history
Appended(ss, user_text) ==
  [ss EXCEPT !.messages = Append(ss.messages, UserMessage(user_text))]

\* mutant: the whole history is sent on a thread as well
SendingMessagesFull(ss) == ss.messages

\* main: the messages to send, the newest alone on a thread
SendingMessages(ss) ==
  IF ss.thread_id # None /\ ss.parent_message_id # None
  THEN <<ss.messages[Len(ss.messages)]>>
  ELSE ss.messages

\* mutant: the answer of a final chunk is appended to the history
AfterChunkAppending(ss, chunk, desc) ==
  IF chunk.type = "final"
  THEN [ss EXCEPT !.messages =
                     Append(ss.messages,
                            Obj(<<Member(K("role"), Str(<<"assistant">>)),
                                  Member(K("content"), Str(chunk.content))>>)),
                  !.parent_message_id =
                     IF Truthy(ss.thread_id) THEN LatestId(desc, ss.parent_message_id)
                     ELSE ss.parent_message_id]
  ELSE ss

\* mutant: an error chunk puts the parent back to the start of the thread
AfterChunkErrorResets(ss, chunk, desc) ==
  IF chunk.type = "final" /\ Truthy(ss.thread_id)
  THEN [ss EXCEPT !.parent_message_id = LatestId(desc, ss.parent_message_id)]
  ELSE IF chunk.type = "error" /\ Truthy(ss.thread_id)
  THEN [ss EXCEPT !.parent_message_id = Str(<<"0">>)]
  ELSE ss

\* main: the session after the loop body for one chunk; desc is what
\* describe_thread returns when the body calls it
AfterChunk(ss, chunk, desc) ==
  IF chunk.type = "final" /\ Truthy(ss.thread_id)
  THEN [ss EXCEPT !.parent_message_id = LatestId(desc, ss.parent_message_id)]
  ELSE ss

\* the user's choice in the selectbox: "" when no thread is listed
Selections == {Str(<<>>), Str(<<"t1">>), Str(<<"t2">>)}
\* what create_thread returns
NewIds == {None, Num("5")}
UserTexts == {<<"Hi">>, <<"there">>}

StoredMessage(id, role, payload) ==
  Obj(<<Member(K("message_id"), id), Member(K("role"), Str(<<role>>)),
        Member(K("message_payload"), Str(payload))>>)

\* a stored payload in JSON: a thinking block and a text block
JsonPayload ==
  <<"{">> \o KV("role", Q(<<"assistant">>)) \o <<",">>
  \o KV("content",
        <<"[", "{">> \o KV("type", Q(<<"thinking">>)) \o <<"}", ",", "{">>
        \o KV("type", Q(<<"text">>)) \o <<",">> \o KV("text", Q(<<"Hello">>))
        \o <<"}", "]">>)
  \o <<"}">>

\* what describe_thread returns: None with the error it recorded, or the decoded
\* body (messages newest first)
\* describe_thread is not called
NoCall == [value |-> None, error |-> None]
DescribeReplies ==
  { [value |-> None, error |-> Str(FormatHttpError(HttpError("503", <<>>)))] }
  \cup
  { [value |-> Obj(<<Member(K("messages"), List(msgs))>>), error |-> None] :
      msgs \in { <<StoredMessage(Num("5"), "assistant", JsonPayload),
                   StoredMessage(Num("1"), "user", <<"Hi">>)>>,
                 <<Obj(<<Member(K("message_payload"), Str(<<"Hello">>))>>)>>,
                 <<Num("5")>>,
                 <<>> } }

\* the events of the runs the app displays
AppEvents ==
  { Event("response.text.delta", <<MText>>), Event("response", <<MContent>>) }

\* reply is what describe_thread gives when the sidebar loads the selected
\* thread; a describe_thread that fails records its error on the client
Sidebar(selected, reply) ==
  IF Truthy(selected) /\ selected # session_state.loaded_thread_id
  THEN reply \in DescribeReplies
  ELSE reply = NoCall

\* a script run with no click and no input: the sidebar alone
Rerun(selected, reply) ==
  /\ script.phase = "idle"
  /\ Sidebar(selected, reply)
  /\ session_state' = AutoLoad(session_state, selected, reply.value)
  /\ UNCHANGED << pc, op, stream, yield_events, request, status_code, conn, runVars, result,
                  outcome, last_error, runs, earlier, passed, closed, config, script >>

\* the script run of a click on "New thread"
NewThread(selected, reply, new_id) ==
  /\ script.phase = "idle"
  /\ Sidebar(selected, reply)
  /\ session_state' = Created(AutoLoad(session_state, selected, reply.value), new_id)
  /\ UNCHANGED << pc, op, stream, yield_events, request, status_code, conn, runVars, result,
                  outcome, last_error, runs, earlier, passed, closed, config, script >>

\* the script run of a click on "Delete current thread"
DeleteThread(selected, reply, ok) ==
  /\ script.phase = "idle"
  /\ Sidebar(selected, reply)
  /\ session_state' = Deleted(AutoLoad(session_state, selected, reply.value), ok)
  /\ UNCHANGED << pc, op, stream, yield_events, request, status_code, conn, runVars, result,
                  outcome, last_error, runs, earlier, passed, closed, config, script >>

\* the script run of a submitted input: a new client, the sidebar, the text
\* appended to the history, and the run started
Submit(selected, reply, user_text) ==
  LET ss == Appended(AutoLoad(session_state, selected, reply.value), user_text) IN
  /\ script.phase = "idle"
  /\ runs < MaxRuns
  /\ Sidebar(selected, reply)
  /\ session_state' = ss
  /\ script' = [phase |-> "running", consumed |-> 0, thread_id |-> ss.thread_id,
                parent_message_id |-> ss.parent_message_id, finals |-> 0, failed |-> FALSE]
  /\ last_error' = reply.error
  /\ RunAgentStream([messages |-> List(SendingMessages(ss)),
                     thread_id |-> ss.thread_id,
                     parent_message_id |-> ss.parent_message_id,
                     tool_choice |-> Obj(<<Member(K("type"), Str(<<"auto">>))>>)],
                    TRUE)

\* the script run is waiting for the next chunk of the run
Waiting == script.phase = "running" /\ script.consumed = Len(chunks)

\* the loop body for the next chunk of the run: a final chunk asks the thread for
\* its newest message, an error chunk ends the loop, and a stalled stream makes
\* the script run start over; the generator left behind is closed
HandleChunk(reply, stalled) ==
  LET chunk == chunks[script.consumed + 1]
      calls == chunk.type = "final" /\ Truthy(session_state.thread_id)
      leaves == chunk.type = "error" \/ stalled
      ss == AfterChunk(session_state, chunk, reply.value)
  IN
  /\ script.phase = "running"
  /\ script.consumed < Len(chunks)
  /\ IF calls THEN reply \in DescribeReplies ELSE reply = NoCall
  /\ session_state' = IF stalled /\ chunk.type # "error"
                      THEN [ss EXCEPT !.loaded_thread_id = None]
                      ELSE ss
  /\ script' = [script EXCEPT
                  !.phase = IF leaves THEN "left" ELSE "running",
                  !.consumed = script.consumed + 1,
                  !.finals = IF chunk.type = "final" THEN script.finals + 1 ELSE script.finals,
                  !.failed = script.failed \/ (calls /\ reply.error # None)]
  /\ last_error' = IF reply.error # None THEN reply.error ELSE last_error
  /\ IF leaves /\ pc \in {"streaming", "error_yielded"}
     THEN pc' = "done" /\ conn' = FALSE /\ closed' = TRUE
     ELSE UNCHANGED << pc, conn, closed >>
  /\ UNCHANGED << op, stream, yield_events, request, status_code, runVars, result, outcome,
                  runs, earlier, passed, config >>

\* the script run is over: the loop was left, or the run is exhausted; the next
\* script run builds its own client
ScriptEnd ==
  /\ \/ script.phase = "left"
     \/ Waiting /\ pc = "done"
  /\ script' = NoScript
  /\ pc' = "idle"
  /\ op' = "none"
  /\ yield_events' = FALSE
  /\ status_code' = ""
  /\ lines' = <<>>
  /\ buffer_lines' = <<>>
  /\ blocks' = <<>>
  /\ parsed' = <<>>
  /\ chunks' = <<>>
  /\ outcome' = "none"
  /\ closed' = FALSE
  /\ last_error' = None
  /\ earlier' = {}
  /\ passed' = {}
  /\ UNCHANGED << stream, request, conn, events, full_text, result, runs, config,
                  session_state >>

\* up to MaxRuns inputs to the app, with script runs of the other kinds in
\* between; the run of an input advances when the script asks for a chunk
NextApp ==
  \/ \E selected \in Selections, reply \in DescribeReplies \cup {NoCall} : Rerun(selected, reply)
  \/ \E selected \in Selections, reply \in DescribeReplies \cup {NoCall}, new_id \in NewIds :
       NewThread(selected, reply, new_id)
  \/ \E selected \in Selections, reply \in DescribeReplies \cup {NoCall}, ok \in BOOLEAN :
       DeleteThread(selected, reply, ok)
  \/ \E selected \in Selections, reply \in DescribeReplies \cup {NoCall}, user_text \in UserTexts :
       Submit(selected, reply, user_text)
  \/ \E reply \in DescribeReplies \cup {NoCall}, stalled \in BOOLEAN : HandleChunk(reply, stalled)
  \/ ScriptEnd
  \/ Waiting /\ \E sc \in StatusCodes : Respond(sc)
  \/ Waiting /\ \E text \in Bodies : BadStatus(text)
  \/ Waiting /\ \E event \in AppEvents : RecvEvent(event)
  \/ Waiting /\ EndOfStream
  \/ Waiting /\ \E exc \in Excs : RaiseRequestException(exc)

SpecApp == Init /\ [][NextApp]_vars

\* ------------------------------------------------------------------ claims

ChunkIdx(kinds) == {i \in 1..Len(chunks) : chunks[i].type \in kinds}

IsResponse(event) == Get(event, K("event")) = Str(<<"response">>)

\* the events of es that are `response`-named and have non-empty content
Finals(es) ==
  SelectSeq(es, LAMBDA e : Truthy(e) /\ IsResponse(e) /\ ExtractContent(e) # <<>>)

\* C1 as stated: every finished run of run_agent_stream has exactly one chunk of
\* kind final or error, and that chunk is the last one.
C1_Original ==
  (op = "run_agent_stream" /\ pc = "done") =>
    /\ Cardinality(ChunkIdx({"final", "error"})) = 1
    /\ chunks[Len(chunks)].type \in {"final", "error"}

\* C1 amended: a run of run_agent_stream yields at most one error chunk, the error
\* chunk is the last chunk of the finished sequence, and the run ends with one
\* exactly when the status is not 200 or a transport exception occurs; the final
\* chunks are one per `response`-named event with non-empty content (none, one or
\* several), and they need not be last.
C1_Amended ==
  op = "run_agent_stream" =>
    /\ Cardinality(ChunkIdx({"error"})) <= 1
    /\ \A i \in ChunkIdx({"error"}) : i = Len(chunks) /\ pc \in {"error_yielded", "done"}
    /\ pc = "done" => (ChunkIdx({"error"}) # {} <=> outcome \in {"bad_status", "exception"})
    /\ Cardinality(ChunkIdx({"final"})) = Len(Finals(parsed))

\* a finished run whose final chunk is followed by the error chunk of a failure
C1_Witness ==
  /\ op = "run_agent_stream" /\ pc = "done" /\ outcome = "exception"
  /\ Len(chunks) = 2
  /\ chunks[1].type = "final"
  /\ chunks[2].type = "error"

CarriesStatus(chunk) == \E i \in 1..Len(chunk.error) : chunk.error[i] = status_code

BadStatusRun == op = "run_agent_stream" /\ pc = "done" /\ status_code \notin {"", "200"}

\* C2 as stated: a run whose status is not 200 yields exactly one chunk, an error
\* chunk carrying the status, and decodes no block.
C2_Original ==
  BadStatusRun =>
    /\ Len(chunks) = 1
    /\ chunks[1].type = "error"
    /\ CarriesStatus(chunks[1])
    /\ lines = <<>> /\ blocks = <<>> /\ parsed = <<>>

\* C2 amended: a run whose status is not 200 yields exactly one chunk, of kind
\* error, and decodes no block; the chunk carries the status and the truncated
\* body when the body is read, and the transport error when reading the body
\* raises.
C2_Amended ==
  /\ (op = "run_agent_stream" /\ pc = "bad_status") => chunks = <<>>
  /\ BadStatusRun =>
       /\ Len(chunks) = 1
       /\ chunks[1].type = "error"
       /\ outcome \in {"bad_status", "exception"}
       /\ outcome = "bad_status" =>
            \E text \in Bodies : chunks[1].error = <<"HTTP ", status_code, ": ">> \o text
       /\ outcome = "exception" => Str(chunks[1].error) = last_error
       /\ lines = <<>> /\ blocks = <<>> /\ parsed = <<>>

\* a 503 answer whose body reads as an SSE block: one error chunk, nothing decoded
C2_Witness ==
  /\ BadStatusRun /\ status_code = "503" /\ outcome = "bad_status"
  /\ Len(chunks[1].error) > 3

\* the chunks the claim expects for the events es, raw events not shown
ExpectedChunks(es) ==
  LET withContent == SelectSeq(es, LAMBDA e : e # None /\ ExtractContent(e) # <<>>) IN
  [i \in 1..Len(withContent) |->
     [type |-> IF IsResponse(withContent[i]) THEN "final" ELSE "content",
      content |-> ExtractContent(withContent[i])]]

\* C3: with yield_events off, a status-200 run without transport failure yields
\* one chunk per event with non-empty content, in block order, final for an event
\* named response and content for any other; the example stream yields
\* content("Hi"), content(" there"), final("Hi there").
C3_Chunks ==
  (op = "run_agent_stream" /\ ~yield_events /\ status_code = "200"
   /\ outcome \in {"none", "eof"}) =>
    /\ chunks = ExpectedChunks(parsed)
    /\ (pc = "done" /\ lines = ExampleStream) =>
         chunks = << ContentChunk(<<"Hi">>), ContentChunk(<<" ", "there">>),
                     FinalChunk(<<"Hi", " ", "there">>) >>

\* the example run has ended: four events, three chunks
C3_Witness ==
  /\ op = "run_agent_stream" /\ ~yield_events /\ pc = "done" /\ outcome = "eof"
  /\ lines = ExampleStream
  /\ Len(parsed) = 4
  /\ Len(chunks) = 3

\* a step in which session.post, resp.text or resp.iter_lines raises
Raises == outcome = "none" /\ outcome' \in {"exception", "raised"}

\* what C4 asks of a step of run_agent_stream in which an exception is raised
C4_Step ==
  (op = "run_agent_stream" /\ Raises) =>
    /\ outcome' = "exception"
    /\ pc' = "done"
    /\ Len(chunks') = Len(chunks) + 1
    /\ SubSeq(chunks', 1, Len(chunks)) = chunks
    /\ chunks'[Len(chunks')].type = "error"
    /\ ChunkIdx({"error"}) = {}
    /\ blocks' = blocks /\ parsed' = parsed /\ lines' = lines

\* C4: when a read timeout or another transport exception occurs in
\* run_agent_stream (opening the connection, or reading after any number of
\* blocks), the step yields exactly one error chunk after the unchanged earlier
\* chunks, none of which is an error chunk, processes no block, ends the run and
\* raises nothing to the caller.
C4_Failure == [][C4_Step]_vars

\* a failure after a chunk was yielded and with lines pending in the accumulator
C4_Witness ==
  /\ op = "run_agent_stream" /\ outcome = "exception"
  /\ Len(chunks) = 2
  /\ chunks[2].type = "error"
  /\ buffer_lines # <<>>

CallArgs == request.args[1]
BothIds(a) == a.thread_id # None /\ a.parent_message_id # None

\* C5: the payload of run_agent and of run_agent_stream holds thread_id and
\* parent_message_id, with the arguments' values, exactly when both arguments are
\* given, never one of the two keys alone; the two operations build the same
\* payload from the same arguments.
C5_Payload ==
  pc = "requested" =>
    LET a == CallArgs
        p == request.json
    IN
    /\ Has(p, K("thread_id")) <=> BothIds(a)
    /\ Has(p, K("parent_message_id")) <=> BothIds(a)
    /\ BothIds(a) =>
         /\ Get(p, K("thread_id")) = a.thread_id
         /\ Get(p, K("parent_message_id")) = a.parent_message_id
    /\ p = IF op = "run_agent"
           THEN RunAgentStreamPayload(a.messages, a.thread_id, a.parent_message_id,
                                      a.tool_choice)
           ELSE RunAgentPayload(a.messages, a.thread_id, a.parent_message_id,
                                a.tool_choice)

\* a call with a thread_id and no parent_message_id: neither key is sent
C5_Witness ==
  /\ pc = "requested"
  /\ CallArgs.thread_id # None
  /\ CallArgs.parent_message_id = None
  /\ ~Has(request.json, K("thread_id"))
  /\ ~Has(request.json, K("parent_message_id"))

\* C6: the payload's messages are the messages argument itself, whether or not
\* the thread ids are set; no message of an earlier run on the client is in the
\* payload unless the caller passed it again.
C6_Messages ==
  pc = "requested" =>
    LET a == CallArgs
        sent == Get(request.json, K("messages"))
    IN
    /\ sent = a.messages
    /\ \A m \in Elems(sent) : m \in earlier => m \in Elems(a.messages)

\* the second run on a thread passes only the new message, the first passed another
C6_Witness ==
  /\ pc = "requested" /\ op = "run_agent_stream" /\ runs = 2
  /\ BothIds(CallArgs)
  /\ CallArgs.messages = List(<<Msg2>>)
  /\ Msg1 \in earlier

WellFormed(ls) ==
  /\ ls # <<>> => ls[1] # Blank
  /\ \A i \in 1..(Len(ls) - 1) : ~(ls[i] = Blank /\ ls[i + 1] = Blank)

\* where the groups of ls end: at each blank line, and after the last line
GroupEnds(ls) ==
  {i \in 1..Len(ls) : ls[i] = Blank}
  \cup (IF ls # <<>> /\ ls[Len(ls)] # Blank THEN {Len(ls) + 1} ELSE {})

GroupBefore(ls, e) ==
  LET blanks == {i \in 1..(e - 1) : ls[i] = Blank}
      start == IF blanks = {} THEN 1 ELSE (CHOOSE i \in blanks : \A j \in blanks : j <= i) + 1
  IN SubSeq(ls, start, e - 1)

\* the delimited groups of ls, in source order
Groups(ls) ==
  LET ends == GroupEnds(ls) IN
  [k \in 1..Cardinality(ends) |->
     GroupBefore(ls, CHOOSE e \in ends : Cardinality({x \in ends : x <= e}) = k)]

\* C7: on a well-formed line stream read to its end, _iter_sse hands on exactly
\* one block per delimited group, in source order, each block holding exactly the
\* lines of its group, and yields one event per block.
C7_Blocks ==
  (pc = "done" /\ outcome = "eof" /\ WellFormed(lines)) =>
    /\ blocks = Groups(lines)
    /\ \A i \in 1..Len(blocks) : blocks[i] # <<>>
    /\ Len(parsed) = Len(blocks)

\* a well-formed stream of two groups, the second one closed by the end of stream
C7_Witness ==
  /\ pc = "done" /\ outcome = "eof" /\ WellFormed(lines)
  /\ Len(lines) = 3
  /\ Len(blocks) = 2

Surfaced(es) == SelectSeq(es, Truthy)
Blanks(ls) == {i \in 1..Len(ls) : ls[i] = Blank}

\* C8: when the stream ends with lines in the accumulator, one last block is
\* built from them; and a stream that ends with a blank line surfaces the same
\* events, chunks and text as the same stream without that blank line.
C8_EndOfStream ==
  (pc = "done" /\ outcome = "eof") =>
    /\ buffer_lines # <<>> =>
         /\ Len(blocks) = Cardinality(Blanks(lines)) + 1
         /\ blocks[Len(blocks)] = buffer_lines
         /\ Len(parsed) = Len(blocks)
         /\ parsed[Len(parsed)] = ParseSseBlock(buffer_lines)
    /\ (lines # <<>> /\ lines[Len(lines)] = Blank) =>
         LET short == IterSse(SubSeq(lines, 1, Len(lines) - 1)) IN
         /\ Surfaced(parsed) = Surfaced(short)
         /\ op = "run_agent_stream" => chunks = StreamChunks(short, yield_events)
         /\ op = "run_agent" =>
              /\ events = PostSseEvents(short)
              /\ full_text = PostSseText(short)

\* a stream that ends without a blank line after its second group
C8_Witness ==
  /\ pc = "done" /\ outcome = "eof"
  /\ buffer_lines # <<>>
  /\ Len(blocks) = 2
  /\ blocks[2] = buffer_lines
  /\ Truthy(parsed[2])

\* every data: line of the block holds nothing but whitespace (or there is none)
EmptyData(block) ==
  \A i \in 1..Len(block) :
    StartsWith(block[i], "data:") => \A j \in 2..Len(block[i]) : block[i][j] \in Whitespace

\* what C9 asks of a step that decodes a block with empty data
C9_Step ==
  (Len(blocks') = Len(blocks) + 1 /\ EmptyData(blocks'[Len(blocks')])) =>
    /\ Len(parsed') = Len(parsed) + 1
    /\ parsed'[Len(parsed')] = None
    /\ chunks' = chunks
    /\ events' = events
    /\ full_text' = full_text

\* C9: a block whose joined data is empty after trimming (blank data: lines, no
\* data: line, or an empty accumulator) normalizes to None, and the step that
\* decodes it yields no chunk of any kind, with or without raw events, and adds
\* nothing to run_agent's events and full_text.
C9_EmptyBlock == [][C9_Step]_vars

\* a block with an event: line and a whitespace-only data: line was decoded with
\* raw events shown, and nothing was yielded
C9_Witness ==
  /\ op = "run_agent_stream" /\ yield_events
  /\ Len(blocks) = 1
  /\ blocks[1] = <<LEventResponse, LDataBlank>>
  /\ parsed = <<None>>
  /\ chunks = <<>>

Keys(d) == {d.l[i].k : i \in 1..Len(d.l)}

\* the value of the block's last event: line, trimmed (empty when there is none)
FrameName(block) ==
  LET idx == {i \in 1..Len(block) : StartsWith(block[i], "event:")} IN
  IF idx = {} THEN <<>>
  ELSE Strip(Tail(block[CHOOSE i \in idx : \A j \in idx : j <= i]))

\* C10: for a block whose joined data parses as a JSON object, an object with an
\* event key is returned as it is whatever the frame's name; an object without
\* one gets event = the frame's (non-empty) name; every other key is unchanged.
C10_Event ==
  \A i \in 1..Len(blocks) :
    LET r == JsonLoads(DataStr(blocks[i]))
        name == FrameName(blocks[i])
    IN
    (r.ok /\ IsDict(r.v)) =>
      /\ Has(r.v, K("event")) => parsed[i] = r.v
      /\ (~Has(r.v, K("event")) /\ name # <<>>) =>
           /\ Get(parsed[i], K("event")) = Str(name)
           /\ Keys(parsed[i]) = Keys(r.v) \cup {K("event")}
      /\ (~Has(r.v, K("event")) /\ name = <<>>) => parsed[i] = r.v
      /\ \A k \in Keys(r.v) \ {K("event")} : Get(parsed[i], k) = Get(r.v, k)

\* a frame named response.text.delta whose object says event: response
C10_Witness ==
  /\ Len(blocks) = 1
  /\ blocks[1] = <<LEventDelta, LDataOwnEvent>>
  /\ Get(parsed[1], K("event")) = Str(<<"response">>)

\* the position of the k-th blank line of ls
NthBlank(ls, k) ==
  CHOOSE p \in Blanks(ls) : Cardinality({q \in Blanks(ls) : q <= p}) = k

\* ls without the lines of its i-th block and the blank line that closes it
WithoutBlock(ls, i) ==
  LET first == IF i = 1 THEN 1 ELSE NthBlank(ls, i - 1) + 1
      last == IF i <= Cardinality(Blanks(ls)) THEN NthBlank(ls, i) ELSE Len(ls)
  IN SubSeq(ls, 1, first - 1) \o SubSeq(ls, last + 1, Len(ls))

\* the block's joined data is not empty and is not valid JSON
Malformed(block) == DataStr(block) # <<>> /\ ~JsonLoads(DataStr(block)).ok

\* C11: a block whose data is not valid JSON normalizes to {data: raw string},
\* with event: the frame's name when the frame has one, and the run goes on: the
\* other blocks of the stream are decoded to the same events, and yield the same
\* chunks in the same order, as on the stream without the malformed block.
C11_Malformed ==
  (pc = "done" /\ outcome = "eof") =>
    \A i \in 1..Len(blocks) :
      Malformed(blocks[i]) =>
        LET raw == Member(K("data"), Str(DataStr(blocks[i])))
            name == FrameName(blocks[i])
            rest == IterSse(WithoutBlock(lines, i))
        IN
        /\ parsed[i] = IF name # <<>>
                       THEN Obj(<<raw, Member(K("event"), Str(name))>>)
                       ELSE Obj(<<raw>>)
        /\ Len(parsed) = Len(blocks)
        /\ SubSeq(parsed, 1, i - 1) \o SubSeq(parsed, i + 1, Len(parsed)) = rest
        /\ op = "run_agent_stream" =>
             chunks = StreamChunks(SubSeq(rest, 1, i - 1), yield_events)
                      \o StreamBody(parsed[i], yield_events)
                      \o StreamChunks(SubSeq(rest, i, Len(rest)), yield_events)

\* a [DONE] frame followed by a response block: the final chunk is still yielded
C11_Witness ==
  /\ op = "run_agent_stream" /\ pc = "done" /\ outcome = "eof"
  /\ lines = <<LDataRaw, Blank, LDataOwnEvent>>
  /\ Malformed(blocks[1])
  /\ chunks = <<FinalChunk(<<"Hi">>)>>

\* the event is named response.text.delta or response.text
IsTextEvent(event) ==
  IsDict(event)
  /\ Get(event, K("event")) \in {Str(<<"response.text.delta">>), Str(<<"response.text">>)}

HasStrText(event) == IsStr(Get(event, K("text")))

\* C12 as stated: for every event named response.text.delta or response.text the
\* extracted content is its string text, and nothing else of the event (its
\* content, its output.messages) ever decides it.
C12_Original ==
  \A i \in 1..Len(parsed) :
    IsTextEvent(parsed[i]) =>
      ExtractContent(parsed[i])
        = IF HasStrText(parsed[i]) THEN Get(parsed[i], K("text")).s ELSE <<>>

\* C12 amended: an event named response.text.delta or response.text that has a
\* string text extracts to that text verbatim, whatever its content or output
\* fields hold; one without a string text extracts as an event of any other
\* name does, so its content field then decides the result.
C12_Amended ==
  \A i \in 1..Len(parsed) :
    IsTextEvent(parsed[i]) =>
      ExtractContent(parsed[i])
        = IF HasStrText(parsed[i])
          THEN Get(parsed[i], K("text")).s
          ELSE ExtractContent(Put(parsed[i], K("event"), Str(<<"other">>)))

\* a response.text.delta event with text "Hello" and content "Hi" yielded the
\* content chunk "Hello"
C12_Witness ==
  /\ op = "run_agent_stream" /\ ~yield_events
  /\ parsed = <<Event("response.text.delta", <<MText, MContent>>)>>
  /\ chunks = <<ContentChunk(<<"Hello">>)>>

\* the string text of every mapping of the list that has one, in list order
ListTexts(list) ==
  LET withText == SelectSeq(list.l, LAMBDA b : IsDict(b) /\ IsStr(Get(b, K("text")))) IN
  [i \in 1..Len(withText) |-> Get(withText[i], K("text")).s]

IsResponseList(event) ==
  IsDict(event) /\ IsResponse(event) /\ IsList(Get(event, K("content")))

\* C13 as stated: an event named response whose content is a list extracts to
\* the concatenation, in list order, of the string text of its blocks.
C13_Original ==
  \A i \in 1..Len(parsed) :
    IsResponseList(parsed[i]) =>
      ExtractContent(parsed[i]) = Join(ListTexts(Get(parsed[i], K("content"))))

\* C13 amended: an event named response whose content is a list with at least
\* one block holding a string text extracts to the concatenation of those texts
\* in list order (typed text or not; other blocks add nothing); when no block
\* holds a string text the list decides nothing and the later rules apply, as
\* for the same event with an empty content list.
C13_Amended ==
  \A i \in 1..Len(parsed) :
    IsResponseList(parsed[i]) =>
      LET texts == ListTexts(Get(parsed[i], K("content"))) IN
      ExtractContent(parsed[i])
        = IF texts # <<>>
          THEN Join(texts)
          ELSE ExtractContent(Put(parsed[i], K("content"), List(<<>>)))

\* the response event with content [text A, text B] yielded the final chunk "AB"
C13_Witness ==
  /\ op = "run_agent_stream" /\ ~yield_events
  /\ parsed = <<Event("response", <<MContentAB>>)>>
  /\ chunks = <<FinalChunk(<<"A", "B">>)>>

\* C14: however a run of run_agent_stream ends (the stream is exhausted, the
\* status is bad, a transport error occurs, or the caller closes the sequence
\* after a chunk), the response of session.post is no longer held once the
\* sequence has finished or been closed; it is held while the run is suspended
\* inside the with block.
C14_Released ==
  op = "run_agent_stream" =>
    /\ pc = "done" => ~conn
    /\ pc \in {"bad_status", "error_yielded", "streaming"} => conn

\* the caller left the loop on the error chunk of a 503 answer
C14_Witness ==
  /\ op = "run_agent_stream" /\ pc = "done" /\ closed
  /\ status_code = "503"
  /\ chunks # <<>> /\ chunks[Len(chunks)].type = "error"
  /\ ~conn

\* the operations of the Threads API that C15 names
Crud == {"create_thread", "list_threads", "describe_thread", "delete_thread"}

\* C15 as stated: create_thread, list_threads, describe_thread and delete_thread
\* return normally for every outcome of the HTTP exchange, none raises past the
\* client; on failure they return None, [], None and False and record the error.
C15_Original ==
  (op \in Crud /\ pc = "done") =>
    /\ outcome # "raised"
    /\ result.status = "returned"
    /\ outcome = "exception" =>
         /\ result.value = (IF op = "list_threads" THEN List(<<>>)
                            ELSE IF op = "delete_thread" THEN False
                            ELSE None)
         /\ last_error # None

\* the content carried by the content and final chunks of cs, in order
Contents(cs) ==
  LET carrying == SelectSeq(cs, LAMBDA c : c.type \in {"content", "final"}) IN
  [i \in 1..Len(carrying) |-> carrying[i].content]

\* the events carried by the event chunks of cs, in order
EventsOf(cs) ==
  LET carrying == SelectSeq(cs, LAMBDA c : c.type = "event") IN
  [i \in 1..Len(carrying) |-> carrying[i].event]

\* C16: over the same status-200 stream read to its end without failure,
\* run_agent_stream yields the chunks of the loop body applied to the events of
\* the stream, and run_agent(stream=True) returns status success, a response
\* equal to the concatenation, in order, of the content of those content and
\* final chunks, and an events list equal to the events of the event chunks
\* yielded with raw events enabled.
C16_Buffered ==
  (pc = "done" /\ outcome = "eof" /\ status_code = "200") =>
    LET es == IterSse(lines) IN
    /\ op = "run_agent_stream" => chunks = StreamChunks(es, yield_events)
    /\ op = "run_agent" =>
         /\ result.status = "success"
         /\ result.response = Join(Contents(StreamChunks(es, FALSE)))
         /\ result.response = Join(Contents(StreamChunks(es, TRUE)))
         /\ result.events = EventsOf(StreamChunks(es, TRUE))

\* run_agent over the example stream: the two deltas and the response event are
\* all in the response text, the four events in the events list
C16_Witness ==
  /\ op = "run_agent" /\ stream /\ pc = "done" /\ outcome = "eof"
  /\ lines = ExampleStream
  /\ result.response = <<"Hi", " ", "there", "Hi", " ", "there">>
  /\ Len(result.events) = 4

\* the chunks of the run that are not event chunks
NotEventChunks == SelectSeq(chunks, LAMBDA c : c.type # "event")

\* C17 as stated: once a final chunk has been yielded, no content chunk, no
\* second final chunk and no error chunk follows it.
C17_Original ==
  op = "run_agent_stream" =>
    \A i \in ChunkIdx({"final"}) :
      \A j \in (i + 1)..Len(chunks) : chunks[j].type \notin {"content", "final", "error"}

\* C17 amended: a final chunk does not end the run. run_agent_stream keeps
\* decoding after it, and every event yields its chunk by the same rule whether
\* or not a final chunk came before: a content chunk for an event of another
\* name with content, a further final chunk for a further response event with
\* content; a transport failure after a final chunk yields the error chunk.
C17_Amended ==
  (op = "run_agent_stream" /\ status_code = "200") =>
    NotEventChunks
      = ExpectedChunks(parsed)
        \o (IF outcome = "exception" THEN <<ErrorChunk(last_error.s)>> ELSE <<>>)

\* a final chunk, then the content chunk of a later event, then an error chunk
C17_Witness ==
  /\ op = "run_agent_stream" /\ ~yield_events /\ outcome = "exception"
  /\ Len(chunks) = 3
  /\ chunks[1].type = "final"
  /\ chunks[2].type = "content"
  /\ chunks[3].type = "error"

\* C18: a status-200 stream that closes with no `response`-named event of
\* non-empty content ends the sequence of run_agent_stream with no final and no
\* error chunk: the chunks are the content chunks of the events with content,
\* and with raw events enabled the event chunks of the surfaced events.
C18_NoFinal ==
  (op = "run_agent_stream" /\ pc = "done" /\ outcome = "eof" /\ Finals(parsed) = <<>>) =>
    /\ ChunkIdx({"final", "error"}) = {}
    /\ NotEventChunks = ExpectedChunks(parsed)
    /\ \A i \in 1..Len(NotEventChunks) : NotEventChunks[i].type = "content"
    /\ EventsOf(chunks) = IF yield_events THEN Surfaced(parsed) ELSE <<>>

\* a stream whose only event is a response event without content has ended: the
\* event chunk is all that was yielded
C18_Witness ==
  /\ op = "run_agent_stream" /\ yield_events /\ pc = "done" /\ outcome = "eof"
  /\ lines = <<LEventResponse, LDataText, Blank>>
  /\ Len(chunks) = 1
  /\ chunks[1].type = "event"

\* the events the client surfaces: the event chunks of run_agent_stream, the
\* events list of run_agent
SurfacedEvents == IF op = "run_agent" THEN events ELSE EventsOf(chunks)

\* the block has a non-empty event: line, or its payload is an object with an
\* event key
Named(block) ==
  LET r == JsonLoads(DataStr(block)) IN
  FrameName(block) # <<>> \/ (r.ok /\ IsDict(r.v) /\ Has(r.v, K("event")))

\* C19 as stated: every surfaced event is a mapping with an event field, and a
\* block from which no event name can be identified is dropped.
C19_Original ==
  /\ \A i \in 1..Len(SurfacedEvents) :
       IsDict(SurfacedEvents[i]) /\ Has(SurfacedEvents[i], K("event"))
  /\ \A i \in 1..Len(parsed) : ~Named(blocks[i]) => ~Truthy(parsed[i])

\* C19 amended: every surfaced event is a non-empty mapping, and it has an event
\* field exactly when its block has a non-empty event: line or its payload is an
\* object with an event key; a block is dropped only when its data is empty or
\* when it has no event: name and its payload is the empty object, so a block
\* with data and no identifiable name is surfaced without an event field.
C19_Amended ==
  /\ Len(parsed) = Len(blocks)
  /\ \A i \in 1..Len(parsed) :
       LET r == JsonLoads(DataStr(blocks[i])) IN
       /\ Truthy(parsed[i]) =>
            /\ IsDict(parsed[i])
            /\ Has(parsed[i], K("event")) <=> Named(blocks[i])
       /\ ~Truthy(parsed[i]) <=>
            \/ DataStr(blocks[i]) = <<>>
            \/ r.ok /\ r.v = Obj(<<>>) /\ FrameName(blocks[i]) = <<>>
  /\ (op = "run_agent" \/ yield_events) => SurfacedEvents = Surfaced(parsed)

\* the block data: {"text":"Hi"} without an event: line was surfaced as an
\* event chunk whose event has no event field
C19_Witness ==
  /\ op = "run_agent_stream" /\ yield_events
  /\ blocks = << <<LDataText>> >>
  /\ Len(chunks) = 1
  /\ chunks[1].type = "event"
  /\ ~Has(chunks[1].event, K("event"))

\* C20: with raw events enabled, the event chunks carry the non-empty
\* normalized events, one each, verbatim and in order; a content or final chunk
\* comes directly after the event chunk of the event it was extracted from, and
\* an event with content is directly followed by its content or final chunk.
C20_Events ==
  (op = "run_agent_stream" /\ yield_events /\ status_code = "200") =>
    /\ EventsOf(chunks) = Surfaced(parsed)
    /\ \A i \in ChunkIdx({"content", "final"}) :
         /\ i > 1
         /\ chunks[i - 1].type = "event"
         /\ chunks[i].content = ExtractContent(chunks[i - 1].event)
         /\ chunks[i].type = "final" <=> IsResponse(chunks[i - 1].event)
    /\ \A i \in ChunkIdx({"event"}) :
         ExtractContent(chunks[i].event) # <<>> =>
           /\ i < Len(chunks)
           /\ chunks[i + 1].type \in {"content", "final"}

\* two events with content: event, content, event, final
C20_Witness ==
  /\ op = "run_agent_stream" /\ yield_events
  /\ parsed = <<Event("response.status", <<MContent>>), Event("response", <<MContentAB>>)>>
  /\ Len(chunks) = 4
  /\ chunks[1].type = "event" /\ chunks[2].type = "content"
  /\ chunks[3].type = "event" /\ chunks[4].type = "final"

\* the event gets past the text rule and has a top-level content list
GenericList(event) ==
  /\ IsDict(event)
  /\ IsList(Get(event, K("content")))
  /\ ~(IsTextEvent(event) /\ HasStrText(event))

\* C21 as stated: an event that reaches the generic rule with a content list
\* extracts to what the block concatenation of the `response` rule gives for
\* that list: the string text of every mapping of the list, of type text or not.
C21_Original ==
  \A i \in 1..Len(parsed) :
    (GenericList(parsed[i]) /\ ListTexts(Get(parsed[i], K("content"))) # <<>>) =>
      ExtractContent(parsed[i]) = Join(ListTexts(Get(parsed[i], K("content"))))

\* C23: the content, final and error chunks of a run are, in order, the chunks
\* the loop body yields for the same events with raw events disabled, followed
\* by the error chunks; enabling raw events only adds event chunks (one per
\* non-empty event), and with raw events disabled no event chunk is yielded.
C23_Visibility ==
  op = "run_agent_stream" =>
    /\ NotEventChunks
         = StreamChunks(parsed, FALSE) \o SelectSeq(chunks, LAMBDA c : c.type = "error")
    /\ yield_events => EventsOf(chunks) = Surfaced(parsed)
    /\ ~yield_events => ChunkIdx({"event"}) = {}

\* raw events enabled: event and content chunks interleaved, then an error chunk
C23_Witness ==
  /\ op = "run_agent_stream" /\ yield_events
  /\ pc = "done" /\ outcome = "exception"
  /\ Len(chunks) = 3
  /\ chunks[1].type = "event" /\ chunks[2].type = "content" /\ chunks[3].type = "error"

\* the chunks a step adds to those yielded so far
NewChunks == SubSeq(chunks', Len(chunks) + 1, Len(chunks'))

\* C28: a fully consumed run_agent_stream over a finite line stream ends; over
\* the n blocks decoded so far it has yielded at most n + 1 chunks with raw
\* events disabled and at most 2n + 1 with them enabled, of which at most one
\* is an error chunk; and the chunks one block produces hold at most one event
\* chunk and at most one content or final chunk.
C28_Bounded ==
  /\ [](op = "run_agent_stream" =>
          /\ Len(chunks) <= (IF yield_events THEN 2 ELSE 1) * Len(blocks) + 1
          /\ Cardinality(ChunkIdx({"event"})) <= Len(blocks)
          /\ Cardinality(ChunkIdx({"content", "final"})) <= Len(blocks)
          /\ Cardinality(ChunkIdx({"error"})) <= 1)
  /\ [][op = "run_agent_stream" =>
          /\ Len(blocks') <= Len(blocks) + 1
          /\ Len(chunks') >= Len(chunks)
          /\ Len(SelectSeq(NewChunks, LAMBDA c : c.type = "event")) <= 1
          /\ Len(SelectSeq(NewChunks, LAMBDA c : c.type \in {"content", "final"})) <= 1
          /\ Len(blocks') = Len(blocks) =>
                \A i \in 1..Len(NewChunks) : NewChunks[i].type = "error"]_vars
  /\ (op = "run_agent_stream") ~> (pc = "done")

\* the bound is met: one block, raw events enabled, three chunks
C28_Witness ==
  /\ op = "run_agent_stream" /\ yield_events
  /\ pc = "done"
  /\ Len(blocks) = 1
  /\ Len(chunks) = 2 * Len(blocks) + 1

\* the response arrives in this step, with a status other than 200
BadStatusArrives == status_code = "" /\ status_code' \notin {"", "200"}

\* what every step of every operation does to the fields of the client
ClientFrame ==
  /\ config' = config
  /\ last_error # None => last_error' # None
  /\ last_error' # last_error =>
       /\ outcome = "none" /\ outcome' = "exception"
       /\ last_error' # None
  /\ (outcome = "none" /\ outcome' \in {"eof", "json", "returned", "bad_status", "raised"}) =>
       last_error' = last_error
  /\ (Streaming /\ BadStatusArrives) => last_error' = last_error

\* C24 as stated: no operation changes the configuration; last_error is written
\* only by an operation that fails with an exception, is never cleared, is left
\* unchanged by a successful operation, and is left unchanged by a
\* run_agent_stream or run_agent, streaming or not, that gets a status other
\* than 200.
C24_Original ==
  [][/\ ClientFrame
     /\ (op \in {"run_agent_stream", "run_agent"} /\ BadStatusArrives) =>
          last_error' = last_error]_vars

\* C24, amended: no operation changes the configuration; last_error is written
\* only by an operation that ends in its except clause for
\* requests.RequestException, is never cleared, and is left unchanged by a
\* successful operation and by a run_agent_stream or run_agent(stream=True) that
\* gets a status other than 200; run_agent(stream=False) fails on such a status
\* through raise_for_status and records the HTTPError.
C24_Amended ==
  [][/\ ClientFrame
     /\ (op = "run_agent" /\ ~stream /\ BadStatusArrives) =>
          /\ outcome' = "exception"
          /\ \E text \in JsonBodies :
               last_error' = Str(FormatHttpError(HttpError(status_code', text)))
          /\ result' = [status |-> "error", error |-> last_error'.s]]_vars

\* an error recorded by run_agent(stream=False) on a 503 is still there after a
\* later run_agent_stream that got a 503 itself
C24_Witness ==
  /\ runs = 2
  /\ op = "run_agent_stream" /\ outcome = "bad_status" /\ status_code = "503"
  /\ last_error = Str(FormatHttpError(HttpError("503", <<"oops">>)))
  /\ config = NewClient(<<" ", "acct.example", "/", "\n">>, <<"token">>)

\* the app has just started the run of a submitted input
RunStarted == script.phase = "running" /\ pc = "requested"
\* the step is the script run of a submitted input
Submits == script.phase = "idle" /\ script'.phase = "running"
BothSet(ss) == ss.thread_id # None /\ ss.parent_message_id # None

\* C22: a submitted input starts one run of run_agent_stream; it is passed the
\* session's thread_id and parent_message_id, the whole history when one of them
\* is absent and the newest message alone, the user's, when both are set; the
\* payload holds those messages, and the thread keys exactly when both are set.
C22_Sent ==
  /\ [](RunStarted =>
          LET a == request.args[1]
              ss == session_state
              n == Len(ss.messages)
          IN
          /\ n >= 1
          /\ ss.messages[n] \in {UserMessage(t) : t \in UserTexts}
          /\ a.thread_id = ss.thread_id
          /\ a.parent_message_id = ss.parent_message_id
          /\ a.messages = IF BothSet(ss) THEN List(<<ss.messages[n]>>) ELSE List(ss.messages)
          /\ Get(request.json, K("messages")) = a.messages
          /\ Has(request.json, K("thread_id")) <=> BothSet(ss)
          /\ Has(request.json, K("parent_message_id")) <=> BothSet(ss)
          /\ BothSet(ss) =>
               /\ Get(request.json, K("thread_id")) = ss.thread_id
               /\ Get(request.json, K("parent_message_id")) = ss.parent_message_id)
  /\ [][/\ Submits => (runs' = runs + 1 /\ pc' = "requested" /\ op' = "run_agent_stream")
        /\ runs' # runs => (Submits /\ runs' = runs + 1)]_vars

\* the second input, on a loaded thread whose history holds more than the new
\* message: the newest alone is sent
C22_Witness ==
  /\ RunStarted
  /\ runs = 2
  /\ BothSet(session_state)
  /\ Len(session_state.messages) > 1
  /\ Len(request.args[1].messages.l) = 1

\* C25: thread_id and parent_message_id of the session are both absent or both
\* set, in every state; so a run that is sent more than the newest message is
\* sent with no thread active.
C25_Paired ==
  /\ session_state.thread_id = None <=> session_state.parent_message_id = None
  /\ (RunStarted /\ Len(request.args[1].messages.l) > 1) =>
       (session_state.thread_id = None /\ ~Has(request.json, K("thread_id")))

\* a thread whose describe failed at the load, after a run left on an error chunk
C25_Witness ==
  /\ session_state.thread_id = Str(<<"t1">>)
  /\ session_state.parent_message_id = Str(<<"0">>)
  /\ script.phase = "left"
  /\ chunks[script.consumed].type = "error"

IsUser(m) == IsDict(m) /\ Get(m, K("role")) = Str(<<"user">>)
\* the histories a load can leave
Loadable == {Rendered(r.value) : r \in DescribeReplies}

\* C26: the script run of an input appends one message of the user to the
\* history (as it is, or as the sidebar of that script run loaded it); no step
\* of the run changes the history, whatever the chunk; any other script run
\* leaves it, replaces it by what a load renders, or empties it; and with no
\* thread active every message of the history is the user's.
C26_History ==
  /\ [](session_state.thread_id = None =>
          \A i \in 1..Len(session_state.messages) : IsUser(session_state.messages[i]))
  /\ [][/\ Submits =>
             \E base \in {session_state.messages} \cup Loadable, t \in UserTexts :
               session_state'.messages = Append(base, UserMessage(t))
        /\ script.phase # "idle" => session_state'.messages = session_state.messages
        /\ (script.phase = "idle" /\ script'.phase = "idle") =>
             session_state'.messages \in {session_state.messages, <<>>} \cup Loadable]_vars

\* two runs with no thread, each with a final chunk handled: the history is the
\* two inputs
C26_Witness ==
  /\ runs = 2
  /\ script.finals = 1
  /\ session_state.thread_id = None
  /\ Len(session_state.messages) = 2

\* the script run has ended its loop
RunOver == script.phase = "left" \/ (Waiting /\ pc = "done")
\* the ids of the session are those the run was started with
IdsKept ==
  /\ session_state.parent_message_id = script.parent_message_id
  /\ session_state.thread_id = script.thread_id
\* describe_thread returned r, whose newest message has an id
HasLatest(r) == LatestId(r.value, None) # None

\* what every step of a run does to the ids of the session
C27_Step ==
  script.phase = "running" =>
    /\ session_state'.thread_id = session_state.thread_id
    /\ session_state'.parent_message_id # session_state.parent_message_id =>
         /\ script'.consumed = script.consumed + 1
         /\ chunks[script'.consumed].type = "final"
         /\ Truthy(session_state.thread_id)
         /\ ~script'.failed \/ script.failed
         /\ \E r \in DescribeReplies :
              HasLatest(r) /\ session_state'.parent_message_id = LatestId(r.value, None)

\* C27 as stated: parent_message_id changes in a run only at a final chunk, on a
\* thread, to the id of the newest message describe_thread returns; and a run
\* that ends with an error chunk, or with no final chunk, or in which the
\* describe failed, has left both ids as they were.
C27_Original ==
  /\ [][C27_Step]_vars
  /\ []((RunOver /\ \/ (script.consumed > 0 /\ chunks[script.consumed].type = "error")
                    \/ script.finals = 0
                    \/ script.failed)
         => IdsKept)

\* C27, amended: parent_message_id changes in a run only at a final chunk, on a
\* thread, to the id of the newest message describe_thread returns; the error
\* chunk, the other chunks and a failed describe leave both ids as they are,
\* and so does a run in which no final chunk was handled. A run that ends with
\* an error chunk, or in which a later describe failed, keeps the id an earlier
\* final chunk of the same run has set.
C27_Amended ==
  /\ [][C27_Step]_vars
  /\ []((script.phase # "idle" /\ script.finals = 0) => IdsKept)

\* a final chunk on a thread whose newest message has id 5: the parent moved
\* from "0" to "5"
C27_Witness ==
  /\ script.phase = "running"
  /\ script.finals = 1
  /\ script.thread_id = Str(<<"t1">>)
  /\ script.parent_message_id = Str(<<"0">>)
  /\ session_state.parent_message_id = Str(<<"5">>)

====
